---- MODULE Spec2Model ----
(***************************************************************************)
(* EtelGo: the Kafka source (consumer/kafka_consumer.go), the processor    *)
(* factory and the built-in processors (processors/processors.go) and the  *)
(* processor validators (config/config.go).                                *)
(*                                                                         *)
(* Spec      the poll task of KafkaConsumer together with the consumers of *)
(*           its two channels and the cancellation signal.                 *)
(* ProcSpec  one ProcessorConfig taken through ProcessorConfig.Validate,   *)
(*           NewProcessor and Process calls made by concurrent workers.    *)
(***************************************************************************)
EXTENDS Integers, Sequences, FiniteSets, TLC

\* ------------------------------------------------------------------ bounds
\* The consumed topic holds at most this many records over a run, spread over
\* its partitions in any way.
MaxRecords == 3
\* PollFetches reports at most this many fetch errors over a run.
MaxFetchErrs == 1
\* Largest Message.Timestamp (in seconds) a test record carries.
MaxTime == 1
\* Largest number of steps a processor chain declares.
MaxChain == 2
\* Largest number of processor entries a configuration file declares.
MaxProcessors == 2

\* ------------------------------------------------- dynamically typed values
\* A Go interface{} value: its dynamic type t with what it holds: s, a string
\* used as an identifier (a unit, an operation, a field name, a timestamp
\* text); cs, a string as the sequence of its characters (a field value, a
\* prefix, a suffix, a filter criterion); n, an integer. "absent" stands for
\* a key that the map does not hold (a lookup gives nil, ok = false).
Val(t, s, n, cs) == [t |-> t, s |-> s, n |-> n, cs |-> cs]
Absent == Val("absent", "", 0, <<>>)
Str(s) == Val("string", s, 0, <<>>)
Txt(cs) == Val("string", "", 0, cs)
I64(n) == Val("int64", "", n, <<>>)
IntV(n) == Val("int", "", n, <<>>)
MapV == Val("map", "", 0, <<>>)

\* Message.ValueFields, a map[string]interface{}: isNil tells the nil map from
\* an allocated one, kv holds the entries over the field names in use.
FieldKeys == {"status", "message"}
NoFields == [k \in FieldKeys |-> Absent]
NilMap == [isNil |-> TRUE, kv |-> NoFields]
MakeMap(kv) == [isNil |-> FALSE, kv |-> kv]

\* The error values of the program; NoErr is the nil error.
NoErr == "nil"

\* ------------------------------------------------------------ the Source
Partitions == {0, 1}

\* Raw payloads (Message.Value) the topic may hold.
Payloads == {"{}", "null", "{"}

\* encoding/json.Unmarshal of the payload into a nil map[string]interface{}:
\* an object allocates the map, null leaves it nil without an error, anything
\* else leaves it nil and returns an error.
Deserialize(data) ==
  CASE data = "{}" -> [fields |-> MakeMap(NoFields), err |-> NoErr]
    [] data = "{\"status\":\"inactive\"}" ->
         [fields |-> MakeMap([NoFields EXCEPT !["status"] = Txt(<<"i", "n", "a", "c", "t", "i", "v", "e">>)]), err |-> NoErr]
    [] data = "null" -> [fields |-> NilMap, err |-> NoErr]
    [] data = "{" -> [fields |-> NilMap, err |-> "unexpected end of JSON input"]
    [] OTHER -> [fields |-> NilMap, err |-> "invalid character"]

\* FromKafkaFranz: the Message of a fetched record; ValueFields starts nil.
FromKafkaFranz(record) ==
  [Partition |-> record.Partition, Offset |-> record.Offset, Value |-> record.Value,
   Timestamp |-> 0, ValueFields |-> NilMap]

EmptyFetches == [errs |-> <<>>, recs |-> <<>>]
NoMsg == [Partition |-> 0, Offset |-> 0, Value |-> "", Timestamp |-> 0, ValueFields |-> NilMap]

\* ------------------------------------------------- processor configuration
\* The option names the validators and the constructors look up. The entries
\* of the nested map held under "params" are named "params.prefix" and
\* "params.suffix".
OptKeys == {"target_timestamp", "target_timestamps", "offset", "unit", "field_name",
            "filter_criteria", "operation", "prefix", "suffix", "params", "params.prefix",
            "params.suffix", "field_value", "added_field_name", "added_field_value",
            "parsed_timestamp"}
NoConfig == [k \in OptKeys |-> Absent]

\* cfg[k] != nil, and the v.(string) type assertion.
Has(c, k) == c[k].t # "absent"
IsString(v) == v.t = "string"

ProcessorTypes == {"passthrough", "timestamp_replay", "drop", "transform", "enrich"}

\* time.Parse(time.RFC3339, s): the instant in Unix seconds, or an error.
ParseRFC3339(s) ==
  CASE s = "2026-01-23T10:00:00Z" -> [t |-> 1769162400, err |-> NoErr]
    [] s = "2026-01-23T11:00:00+01:00" -> [t |-> 1769162400, err |-> NoErr]
    [] s = "1970-01-01T00:00:01Z" -> [t |-> 1, err |-> NoErr]
    [] OTHER -> [t |-> 0, err |-> "parsing time: cannot parse"]

availableUnits == {"microseconds", "milliseconds", "seconds", "minutes", "hours", "days",
                   "weeks", "months", "years"}
availableOperations == {"uppercase", "lowercase", "add_prefix", "add_suffix"}
ValidTransformOperations == {"uppercase", "lowercase", "add_prefix", "add_suffix"}

\* What a validator returns: the error (NoErr for nil), whether it panicked,
\* and the option map as it has left it.
VRet(err, c) == [err |-> err, panic |-> FALSE, cfg |-> c]
VPanic(c) == [err |-> NoErr, panic |-> TRUE, cfg |-> c]

TimestampReplayValidate(c) ==
  LET hasTargetTimestamp == Has(c, "target_timestamp")
      hasOffset == Has(c, "offset")
      hasUnit == Has(c, "unit")
      parsed == ParseRFC3339(c["target_timestamp"].s)
  IN IF ~hasTargetTimestamp /\ ~hasOffset
       THEN VRet("timestamp_replay: must provide either 'target_timestamp' or 'offset' but not both", c)
     ELSE IF hasTargetTimestamp /\ hasOffset
       THEN VRet("timestamp_replay: cannot provide both 'target_timestamp' and 'offset'", c)
     ELSE IF hasOffset /\ ~hasUnit
       THEN VRet("timestamp_replay: 'unit' is required when using 'offset'", c)
     ELSE IF hasTargetTimestamp /\ ~IsString(c["target_timestamp"])
       THEN VPanic(c)
     ELSE IF hasTargetTimestamp /\ parsed.err # NoErr
       THEN VRet("timestamp_replay: invalid target_timestamp format", c)
     ELSE LET c2 == IF hasTargetTimestamp
                      THEN [c EXCEPT !["parsed_timestamp"] = Val("time", "", parsed.t, <<>>)]
                      ELSE c
          IN IF hasOffset /\ c["offset"].t \notin {"int", "int64"}
               THEN VRet("offset must be an integer", c2)
             ELSE IF hasOffset /\ (~IsString(c["unit"]) \/ c["unit"].s \notin availableUnits)
               THEN VRet("timestamp_replay: invalid 'unit' value", c2)
             ELSE VRet(NoErr, c2)

DropValidate(c) ==
  IF ~Has(c, "field_name") \/ ~Has(c, "filter_criteria")
    THEN VRet("drop: both 'field_name' and 'filter_criteria' are required", c)
  ELSE IF ~IsString(c["filter_criteria"])
    THEN VRet("drop: 'filter_criteria' must be a string", c)
  ELSE IF ~IsString(c["field_name"])
    THEN VRet("drop: 'field_name' must be a string", c)
  ELSE VRet(NoErr, c)

TransformValidate(c) ==
  LET isOp(o) == IsString(c["operation"]) /\ c["operation"].s = o
  IN IF ~Has(c, "field_name") \/ ~Has(c, "operation")
       THEN VRet("transform: both 'field_name' and 'operation' are required", c)
     ELSE IF ~IsString(c["field_name"])
       THEN VRet("transform: 'field_name' must be a string", c)
     ELSE IF ~IsString(c["operation"])
       THEN VRet("transform: 'operation' must be a string", c)
     ELSE IF c["operation"].s \notin availableOperations
       THEN VRet("transform: invalid 'operation' value", c)
     ELSE IF (isOp("add_prefix") /\ ~Has(c, "prefix")) \/ (isOp("add_suffix") /\ ~Has(c, "suffix"))
       THEN VRet("transform: 'prefix' or 'suffix' is required for 'add_prefix' or 'add_suffix'", c)
     ELSE IF isOp("add_prefix") /\ ~IsString(c["prefix"])
       THEN VRet("transform: 'prefix' must be a string", c)
     ELSE IF isOp("add_suffix") /\ ~IsString(c["suffix"])
       THEN VRet("transform: 'suffix' must be a string", c)
     ELSE VRet(NoErr, c)

EnrichValidate(c) ==
  IF ~Has(c, "field_name") \/ ~Has(c, "field_value")
    THEN VRet("enrich: both 'field_name' and 'field_value' are required", c)
  ELSE IF ~IsString(c["field_name"])
    THEN VRet("enrich: 'field_name' must be a string", c)
  ELSE VRet(NoErr, c)

PassthroughValidate(c) == VRet(NoErr, c)

\* A mutant of Validate: a type without a validator is skipped, not rejected.
ValidateSkipUnknown(type, c) ==
  CASE type = "timestamp_replay" -> TimestampReplayValidate(c)
    [] type = "transform" -> TransformValidate(c)
    [] type = "drop" -> DropValidate(c)
    [] type = "enrich" -> EnrichValidate(c)
    [] OTHER -> VRet(NoErr, c)

\* ProcessorConfig.Validate: the validator registered for the type, an error
\* for a type without one.
Validate(type, c) ==
  CASE type = "timestamp_replay" -> TimestampReplayValidate(c)
    [] type = "transform" -> TransformValidate(c)
    [] type = "drop" -> DropValidate(c)
    [] type = "enrich" -> EnrichValidate(c)
    [] type = "passthrough" -> PassthroughValidate(c)
    [] OTHER -> VRet("unknown processor type", c)

\* ------------------------------------------------------------ processors
\* A processor: kind tells the struct; the other fields are the structs'
\* fields, each at its zero value where the kind does not have it. A nil
\* pointer and a nil interface are Absent.
NilParams == [isNil |-> TRUE, prefix |-> Absent, suffix |-> Absent]
NoProc ==
  [kind |-> "none", TargetTimestamps |-> Absent, Offset |-> Absent, Unit |-> Absent,
   filterCriteria |-> <<>>, fieldName |-> "", operation |-> "", params |-> NilParams,
   addedFieldName |-> "", addedFieldValue |-> Absent]

\* What a constructor returns: the processor, the error, or a panic.
PRet(p) == [proc |-> p, err |-> NoErr, panic |-> FALSE]
PErr(e) == [proc |-> NoProc, err |-> e, panic |-> FALSE]
PPanic == [proc |-> NoProc, err |-> NoErr, panic |-> TRUE]

NewTimestampReplayProcessor(c) ==
  PRet([NoProc EXCEPT
          !.kind = "timestamp_replay",
          !.TargetTimestamps = IF IsString(c["target_timestamps"]) THEN c["target_timestamps"]
                               ELSE Absent,
          !.Offset = IF c["offset"].t = "int64" THEN c["offset"] ELSE Absent,
          !.Unit = IF IsString(c["unit"]) THEN c["unit"] ELSE Absent])

NewDropProcessor(c) ==
  PRet([NoProc EXCEPT
          !.kind = "drop",
          !.filterCriteria = IF IsString(c["filter_criteria"]) THEN c["filter_criteria"].cs
                             ELSE <<>>,
          !.fieldName = IF IsString(c["field_name"]) THEN c["field_name"].s ELSE ""])

NewTransformProcessor(c) ==
  IF IsString(c["operation"]) /\ c["operation"].s \notin ValidTransformOperations
    THEN PErr("invalid transformation operation")
  ELSE IF c["params"].t # "map"
    THEN PPanic
  ELSE PRet([NoProc EXCEPT
               !.kind = "transform",
               !.fieldName = IF IsString(c["field_name"]) THEN c["field_name"].s ELSE "",
               !.operation = IF IsString(c["operation"]) THEN c["operation"].s ELSE "",
               !.params = [isNil |-> FALSE, prefix |-> c["params.prefix"],
                           suffix |-> c["params.suffix"]]])

NewEnrichProcessor(c) ==
  PRet([NoProc EXCEPT
          !.kind = "enrich",
          !.addedFieldName = IF IsString(c["added_field_name"]) THEN c["added_field_name"].s
                             ELSE "",
          !.addedFieldValue = c["added_field_value"]])

NewPassthroughProcessor(c) == [NoProc EXCEPT !.kind = "passthrough"]

\* A mutant of NewProcessor: an unknown type gives a passthrough.
NewProcessorSkipUnknown(type, c) ==
  CASE type = "timestamp_replay" -> NewTimestampReplayProcessor(c)
    [] type = "drop" -> NewDropProcessor(c)
    [] type = "transform" -> NewTransformProcessor(c)
    [] type = "enrich" -> NewEnrichProcessor(c)
    [] OTHER -> PRet(NewPassthroughProcessor(c))

\* NewProcessor: the constructor of the type; "filter" has no case.
NewProcessor(type, c) ==
  CASE type = "timestamp_replay" -> NewTimestampReplayProcessor(c)
    [] type = "drop" -> NewDropProcessor(c)
    [] type = "transform" -> NewTransformProcessor(c)
    [] type = "enrich" -> NewEnrichProcessor(c)
    [] type = "passthrough" -> PRet(NewPassthroughProcessor(c))
    [] OTHER -> PErr("unknown processor type")

\* --------------------------------------------------------------- Process
\* What a Process call leaves: ret = "msg" when it returns the Message it was
\* given and "nil" when it returns no Message, the error, the Message object
\* as the call has left it, the processor as the call has left it, and
\* whether the call panicked.
Result(ret, err, m, p) == [ret |-> ret, err |-> err, m |-> m, p |-> p, panic |-> FALSE]
Panicked(m, p) == [ret |-> "nil", err |-> NoErr, m |-> m, p |-> p, panic |-> TRUE]

\* strings.ToUpper and strings.ToLower on ASCII text.
LowerLetters == <<"a", "b", "c", "d", "e", "f", "g", "h", "i", "j", "k", "l", "m", "n", "o",
                  "p", "q", "r", "s", "t", "u", "v", "w", "x", "y", "z">>
UpperLetters == <<"A", "B", "C", "D", "E", "F", "G", "H", "I", "J", "K", "L", "M", "N", "O",
                  "P", "Q", "R", "S", "T", "U", "V", "W", "X", "Y", "Z">>
MapChar(c, from, to) ==
  IF \E i \in 1..Len(from) : from[i] = c THEN to[CHOOSE i \in 1..Len(from) : from[i] = c] ELSE c
ToUpper(cs) == [i \in 1..Len(cs) |-> MapChar(cs[i], LowerLetters, UpperLetters)]
ToLower(cs) == [i \in 1..Len(cs) |-> MapChar(cs[i], UpperLetters, LowerLetters)]

\* msg.ValueFields[k]: the value and ok; reading a nil map finds nothing.
Lookup(vf, k) == IF ~vf.isNil /\ k \in FieldKeys THEN vf.kv[k] ELSE Absent

\* The offset as a time.Duration of the unit, in seconds.
UnitDuration(offset, unit) ==
  CASE unit = "seconds" -> [d |-> offset, err |-> NoErr]
    [] unit = "minutes" -> [d |-> offset * 60, err |-> NoErr]
    [] unit = "hours" -> [d |-> offset * 3600, err |-> NoErr]
    [] OTHER -> [d |-> 0, err |-> "invalid time unit for offset"]

\* A mutant of TimestampReplayProcess: the parsed time is stored in the
\* Message before the parse error is looked at.
TimestampReplayProcessAssignFirst(p, m) ==
  IF p.TargetTimestamps # Absent
    THEN LET parsed == ParseRFC3339(p.TargetTimestamps.s)
         IN IF parsed.err # NoErr
              THEN Result("nil", parsed.err, [m EXCEPT !.Timestamp = parsed.t], p)
              ELSE Result("msg", NoErr, [m EXCEPT !.Timestamp = parsed.t], p)
  ELSE IF p.Offset # Absent /\ p.Unit # Absent
    THEN LET du == UnitDuration(p.Offset.n, p.Unit.s)
         IN IF du.err # NoErr
              THEN Result("nil", du.err, m, p)
              ELSE Result("msg", NoErr, [m EXCEPT !.Timestamp = @ + du.d], p)
  ELSE Result("msg", NoErr, m, p)

\* A mutant of TimestampReplayProcess: the parsed target is cached in the
\* processor, which from then on replays by offset.
TimestampReplayProcessCaching(p, m) ==
  IF p.TargetTimestamps # Absent
    THEN LET parsed == ParseRFC3339(p.TargetTimestamps.s)
         IN IF parsed.err # NoErr
              THEN Result("nil", parsed.err, m, p)
              ELSE Result("msg", NoErr, [m EXCEPT !.Timestamp = parsed.t],
                          [p EXCEPT !.TargetTimestamps = Absent, !.Offset = I64(parsed.t),
                                    !.Unit = Str("seconds")])
  ELSE IF p.Offset # Absent /\ p.Unit # Absent
    THEN LET du == UnitDuration(p.Offset.n, p.Unit.s)
         IN IF du.err # NoErr
              THEN Result("nil", du.err, m, p)
              ELSE Result("msg", NoErr, [m EXCEPT !.Timestamp = @ + du.d], p)
  ELSE Result("msg", NoErr, m, p)

TimestampReplayProcess(p, m) ==
  IF p.TargetTimestamps # Absent
    THEN LET parsed == ParseRFC3339(p.TargetTimestamps.s)
         IN IF parsed.err # NoErr
              THEN Result("nil", parsed.err, m, p)
              ELSE Result("msg", NoErr, [m EXCEPT !.Timestamp = parsed.t], p)
  ELSE IF p.Offset # Absent /\ p.Unit # Absent
    THEN LET du == UnitDuration(p.Offset.n, p.Unit.s)
         IN IF du.err # NoErr
              THEN Result("nil", du.err, m, p)
              ELSE Result("msg", NoErr, [m EXCEPT !.Timestamp = @ + du.d], p)
  ELSE Result("msg", NoErr, m, p)

DropProcess(p, m) ==
  IF p.fieldName # "" /\ p.filterCriteria # <<>>
       /\ Lookup(m.ValueFields, p.fieldName) # Absent
       /\ IsString(Lookup(m.ValueFields, p.fieldName))
       /\ Lookup(m.ValueFields, p.fieldName).cs = p.filterCriteria
    THEN Result("nil", NoErr, m, p)
    ELSE Result("msg", NoErr, m, p)

\* A mutant of applyTransformation: add_prefix appends the prefix.
applyTransformationAppending(value, operation, params) ==
  IF ~IsString(value) THEN [v |-> value, err |-> NoErr]
  ELSE CASE operation = "uppercase" -> [v |-> Txt(ToUpper(value.cs)), err |-> NoErr]
         [] operation = "lowercase" -> [v |-> Txt(ToLower(value.cs)), err |-> NoErr]
         [] operation = "add_prefix" ->
              IF ~IsString(params.prefix)
                THEN [v |-> value,
                      err |-> "missing or invalid 'prefix' parameter for add_prefix operation"]
                ELSE [v |-> Txt(value.cs \o params.prefix.cs), err |-> NoErr]
         [] operation = "add_suffix" ->
              IF ~IsString(params.suffix)
                THEN [v |-> value,
                      err |-> "missing or invalid 'suffix' parameter for add_suffix operation"]
                ELSE [v |-> Txt(value.cs \o params.suffix.cs), err |-> NoErr]
         [] OTHER -> [v |-> value, err |-> "unknown transformation operation"]

\* applyTransformation: the new value and the error.
applyTransformation(value, operation, params) ==
  IF ~IsString(value) THEN [v |-> value, err |-> NoErr]
  ELSE CASE operation = "uppercase" -> [v |-> Txt(ToUpper(value.cs)), err |-> NoErr]
         [] operation = "lowercase" -> [v |-> Txt(ToLower(value.cs)), err |-> NoErr]
         [] operation = "add_prefix" ->
              IF ~IsString(params.prefix)
                THEN [v |-> value,
                      err |-> "missing or invalid 'prefix' parameter for add_prefix operation"]
                ELSE [v |-> Txt(params.prefix.cs \o value.cs), err |-> NoErr]
         [] operation = "add_suffix" ->
              IF ~IsString(params.suffix)
                THEN [v |-> value,
                      err |-> "missing or invalid 'suffix' parameter for add_suffix operation"]
                ELSE [v |-> Txt(value.cs \o params.suffix.cs), err |-> NoErr]
         [] OTHER -> [v |-> value, err |-> "unknown transformation operation"]

\* A mutant of TransformProcess: a failed operation returns the Message
\* together with the error.
TransformProcessReturnsBoth(p, m) ==
  IF p.fieldName = "" \/ p.operation = ""
    THEN Result("msg", NoErr, m, p)
  ELSE IF Lookup(m.ValueFields, p.fieldName) = Absent
    THEN Result("msg", NoErr, m, p)
  ELSE LET r == applyTransformation(Lookup(m.ValueFields, p.fieldName), p.operation, p.params)
       IN IF r.err # NoErr
            THEN Result("msg", r.err, m, p)
            ELSE Result("msg", NoErr, [m EXCEPT !.ValueFields.kv[p.fieldName] = r.v], p)

\* A mutant of TransformProcess: the new value is computed and checked but
\* never stored in the Message.
TransformProcessDiscarding(p, m) ==
  IF p.fieldName = "" \/ p.operation = ""
    THEN Result("msg", NoErr, m, p)
  ELSE IF Lookup(m.ValueFields, p.fieldName) = Absent
    THEN Result("msg", NoErr, m, p)
  ELSE LET r == applyTransformation(Lookup(m.ValueFields, p.fieldName), p.operation, p.params)
       IN IF r.err # NoErr
            THEN Result("nil", r.err, m, p)
            ELSE Result("msg", NoErr, m, p)

\* A mutant of TransformProcess: a processor without field_name or operation
\* refuses every Record.
TransformProcessStrict(p, m) ==
  IF p.fieldName = "" \/ p.operation = ""
    THEN Result("nil", "missing field_name or operation", m, p)
  ELSE IF Lookup(m.ValueFields, p.fieldName) = Absent
    THEN Result("msg", NoErr, m, p)
  ELSE LET r == applyTransformation(Lookup(m.ValueFields, p.fieldName), p.operation, p.params)
       IN IF r.err # NoErr
            THEN Result("nil", r.err, m, p)
            ELSE Result("msg", NoErr, [m EXCEPT !.ValueFields.kv[p.fieldName] = r.v], p)

TransformProcess(p, m) ==
  IF p.fieldName = "" \/ p.operation = ""
    THEN Result("msg", NoErr, m, p)
  ELSE IF Lookup(m.ValueFields, p.fieldName) = Absent
    THEN Result("msg", NoErr, m, p)
  ELSE LET r == applyTransformation(Lookup(m.ValueFields, p.fieldName), p.operation, p.params)
       IN IF r.err # NoErr
            THEN Result("nil", r.err, m, p)
            ELSE Result("msg", NoErr, [m EXCEPT !.ValueFields.kv[p.fieldName] = r.v], p)

\* Writing an entry of a nil map panics.
EnrichProcess(p, m) ==
  IF p.addedFieldName = "" \/ p.addedFieldValue = Absent
    THEN Result("msg", NoErr, m, p)
  ELSE IF m.ValueFields.isNil
    THEN Panicked(m, p)
  ELSE Result("msg", NoErr, [m EXCEPT !.ValueFields.kv[p.addedFieldName] = p.addedFieldValue], p)

\* A mutant of PassthroughProcess: a new Message is returned that carries
\* the metadata of the Record but none of its fields.
PassthroughProcessCopying(p, m) == Result("msg", NoErr, [m EXCEPT !.ValueFields = MakeMap(NoFields)], p)

PassthroughProcess(p, m) == Result("msg", NoErr, m, p)

\* Processor.Process, dispatched on the dynamic type of the processor.
Process(p, m) ==
  CASE p.kind = "timestamp_replay" -> TimestampReplayProcess(p, m)
    [] p.kind = "drop" -> DropProcess(p, m)
    [] p.kind = "transform" -> TransformProcess(p, m)
    [] p.kind = "enrich" -> EnrichProcess(p, m)
    [] OTHER -> PassthroughProcess(p, m)

\* ------------------------------------------------ input and output sections
\* A pointer field of a section: nil, or the address of a value.
NilString == [isNil |-> TRUE, v |-> ""]
NilInt == [isNil |-> TRUE, v |-> 0]
NilBool == [isNil |-> TRUE, v |-> FALSE]
Ptr(v) == [isNil |-> FALSE, v |-> v]

ValidFormats == {"json", "avro", "protobuf", "string"}

\* time.ParseDuration(s): whether it returns an error.
ParseDurationFails(s) == s \notin {"2s", "3s", "5s", "10s", "30s", "30000ms"}

\* What InputConfig.Validate and OutputConfig.Validate return: the error and
\* the section as the call has left it.
SRet(err, c) == [err |-> err, cfg |-> c]

\* InputConfig.Validate up to the Workers default (lines 108-135).
InputChecks(ic) ==
  IF Len(ic.Brokers) = 0 THEN SRet("brokers is required and cannot be empty", ic)
  ELSE IF ic.Topic = "" THEN SRet("topic is required and cannot be empty", ic)
  ELSE LET c1 == IF ic.ConsumerGroup = "" THEN [ic EXCEPT !.ConsumerGroup = "default-group"] ELSE ic
       IN IF c1.Format \notin ValidFormats THEN SRet("unsupported format", c1)
          ELSE IF c1.Format \in {"avro", "protobuf"} /\ c1.SchemaRegistry = ""
            THEN SRet("schema_registry_url is required for AVRO and PROTOBUF formats", c1)
          ELSE SRet(NoErr, IF c1.Workers <= 0 THEN [c1 EXCEPT !.Workers = 1] ELSE c1)

\* InputConfig.Validate from offset_reset on (lines 137-223).
InputOptionals(ic) ==
  IF ~ic.Offset_reset.isNil /\ ic.Offset_reset.v \notin {"earliest", "latest"}
    THEN SRet("offset_reset must be 'earliest' or 'latest'", ic)
  ELSE LET c1 == IF ic.Offset_reset.isNil THEN [ic EXCEPT !.Offset_reset = Ptr("latest")] ELSE ic
           c2 == IF c1.Enable_auto_commit.isNil THEN [c1 EXCEPT !.Enable_auto_commit = Ptr(FALSE)]
                 ELSE c1
       IN IF c2.Enable_auto_commit.v /\ ~c2.Auto_commit_interval.isNil
               /\ ParseDurationFails(c2.Auto_commit_interval.v)
            THEN SRet("invalid auto_commit_interval", c2)
          ELSE LET c3 == IF c2.Enable_auto_commit.v /\ c2.Auto_commit_interval.isNil
                           THEN [c2 EXCEPT !.Auto_commit_interval = Ptr("5s")] ELSE c2
                   c4 == IF c3.Min_bytes.isNil THEN [c3 EXCEPT !.Min_bytes = Ptr(1024)] ELSE c3
                   c5 == IF c4.Max_bytes.isNil THEN [c4 EXCEPT !.Max_bytes = Ptr(1048576)] ELSE c4
                   c6 == IF c5.Max_wait_time.isNil THEN [c5 EXCEPT !.Max_wait_time = Ptr(500)] ELSE c5
               IN IF ~c6.Session_timeout.isNil /\ ParseDurationFails(c6.Session_timeout.v)
                    THEN SRet("invalid session_timeout format", c6)
                  ELSE LET c7 == IF c6.Session_timeout.isNil
                                   THEN [c6 EXCEPT !.Session_timeout = Ptr("10s")] ELSE c6
                       IN IF ~c7.Heartbeat_interval.isNil /\ ParseDurationFails(c7.Heartbeat_interval.v)
                            THEN SRet("invalid heartbeat_interval format", c7)
                          ELSE SRet(NoErr, IF c7.Heartbeat_interval.isNil
                                             THEN [c7 EXCEPT !.Heartbeat_interval = Ptr("3s")]
                                             ELSE c7)

InputValidate(ic) ==
  LET r == InputChecks(ic) IN IF r.err # NoErr THEN r ELSE InputOptionals(r.cfg)

\* A mutant of OutputChecks: the schema registry is asked for with avro only.
OutputChecksAvroOnly(oc) ==
  IF oc.Type # "kafka" THEN SRet("unsupported output type", oc)
  ELSE IF Len(oc.Brokers) = 0 THEN SRet("brokers is required and cannot be empty", oc)
  ELSE IF oc.Topic = "" THEN SRet("topic is required and cannot be empty", oc)
  ELSE LET c1 == IF oc.Workers <= 0 THEN [oc EXCEPT !.Workers = 1] ELSE oc
       IN IF c1.Format \notin ValidFormats THEN SRet("unsupported format", c1)
          ELSE IF c1.Format \in {"avro"} /\ c1.SchemaRegistry = ""
            THEN SRet("schema_registry_url is required for AVRO and PROTOBUF formats", c1)
          ELSE SRet(NoErr, c1)

\* OutputConfig.Validate up to the schema registry check (lines 228-256).
OutputChecks(oc) ==
  IF oc.Type # "kafka" THEN SRet("unsupported output type", oc)
  ELSE IF Len(oc.Brokers) = 0 THEN SRet("brokers is required and cannot be empty", oc)
  ELSE IF oc.Topic = "" THEN SRet("topic is required and cannot be empty", oc)
  ELSE LET c1 == IF oc.Workers <= 0 THEN [oc EXCEPT !.Workers = 1] ELSE oc
       IN IF c1.Format \notin ValidFormats THEN SRet("unsupported format", c1)
          ELSE IF c1.Format \in {"avro", "protobuf"} /\ c1.SchemaRegistry = ""
            THEN SRet("schema_registry_url is required for AVRO and PROTOBUF formats", c1)
          ELSE SRet(NoErr, c1)

\* A mutant of OutputOptionals: a batch_size of zero is kept.
OutputOptionalsZeroBatch(oc) ==
  LET c1 == IF oc.Batch_size.isNil \/ oc.Batch_size.v < 0 \/ oc.Batch_size.v > 100000
              THEN [oc EXCEPT !.Batch_size = Ptr(2000)] ELSE oc
  IN IF ~c1.Compression.isNil /\ c1.Compression.v \notin {"none", "gzip", "snappy", "lz4", "zstd"}
       THEN SRet("compression must be one of: none, gzip, snappy, lz4, zstd", c1)
     ELSE LET c2 == IF c1.Compression.isNil THEN [c1 EXCEPT !.Compression = Ptr("none")] ELSE c1
              c3 == IF c2.Auto_create_topic.isNil THEN [c2 EXCEPT !.Auto_create_topic = Ptr(FALSE)]
                    ELSE c2
          IN IF ~c3.Retry_backoff.isNil /\ ParseDurationFails(c3.Retry_backoff.v)
               THEN SRet("invalid retry_backoff", c3)
             ELSE LET c4 == IF c3.Retry_backoff.isNil THEN [c3 EXCEPT !.Retry_backoff = Ptr("2s")]
                            ELSE c3
                      c5 == IF c4.Request_timeout.isNil \/ ParseDurationFails(c4.Request_timeout.v)
                              THEN [c4 EXCEPT !.Request_timeout = Ptr("10s")] ELSE c4
                  IN SRet(NoErr, IF c5.Max_retries.isNil THEN [c5 EXCEPT !.Max_retries = Ptr(3)]
                                 ELSE c5)

\* OutputConfig.Validate from batch_size on (lines 258-326).
OutputOptionals(oc) ==
  LET c1 == IF oc.Batch_size.isNil \/ oc.Batch_size.v <= 0 \/ oc.Batch_size.v > 100000
              THEN [oc EXCEPT !.Batch_size = Ptr(2000)] ELSE oc
  IN IF ~c1.Compression.isNil /\ c1.Compression.v \notin {"none", "gzip", "snappy", "lz4", "zstd"}
       THEN SRet("compression must be one of: none, gzip, snappy, lz4, zstd", c1)
     ELSE LET c2 == IF c1.Compression.isNil THEN [c1 EXCEPT !.Compression = Ptr("none")] ELSE c1
              c3 == IF c2.Auto_create_topic.isNil THEN [c2 EXCEPT !.Auto_create_topic = Ptr(FALSE)]
                    ELSE c2
          IN IF ~c3.Retry_backoff.isNil /\ ParseDurationFails(c3.Retry_backoff.v)
               THEN SRet("invalid retry_backoff", c3)
             ELSE LET c4 == IF c3.Retry_backoff.isNil THEN [c3 EXCEPT !.Retry_backoff = Ptr("2s")]
                            ELSE c3
                      c5 == IF c4.Request_timeout.isNil \/ ParseDurationFails(c4.Request_timeout.v)
                              THEN [c4 EXCEPT !.Request_timeout = Ptr("10s")] ELSE c4
                  IN SRet(NoErr, IF c5.Max_retries.isNil THEN [c5 EXCEPT !.Max_retries = Ptr(3)]
                                 ELSE c5)

OutputValidate(oc) ==
  LET r == OutputChecks(oc) IN IF r.err # NoErr THEN r ELSE OutputOptionals(r.cfg)

\* ------------------------------------------------------------------ state
VARIABLES
  pc,           \* where the poll task is: created, select, fetch, errSend,
                \* callback, deserErrSend, msgSend, done
  cancelled,    \* ctx.Done() is closed
  aborted,      \* the program has panicked
  cursor,       \* per partition, the next offset the client fetches
  fetchErrs,    \* number of fetch errors PollFetches has reported
  fetches,      \* the value PollFetches returned: [errs, recs]
  ei, ri,       \* position of the poll task in fetches.errs and fetches.recs
  msg,          \* the Message the EachRecord callback is publishing
  chanClosed,   \* [messages, errors]: whether each channel has been closed
  msgConsumer,  \* "idle" or "recv": a consumer is blocked in <-kc.Messages()
  errConsumer,  \* "idle" or "recv": a consumer is blocked in <-kc.Errors()
  readRecs,     \* records the EachRecord callback has been called on
  published,    \* the Messages received from kc.messages, in order
  reported,     \* the errors received from kc.errors, in order
  cfg,          \* the ProcessorConfig: [Type, Config]
  validated,    \* what ProcessorConfig.Validate returned: [st, err]
  built,        \* what NewProcessor returned: [st, err]
  proc,         \* the processor NewProcessor returned, shared by the workers
  builtProc,    \* the processor as NewProcessor returned it
  builtConfig,  \* the option map as NewProcessor was given it
  worker,       \* per worker: [st, in, out], its Process call and its result
  procPanic,    \* a validator, a constructor or a Process call has panicked
  chainCfg,     \* the ProcessorConfigs of the chain, in declared order
  chain,        \* the processors built from chainCfg, in the same order
  chainState,   \* created, failed, idle, running, done, dropped, error, panic
  chainPos,     \* the index in chain of the processor to apply next
  chainIn,      \* the Record as the chain was given it
  chainRec,     \* the Record as the processors applied so far have left it
  chainErr,     \* the error that has stopped the chain
  loadOrig,     \* the Config as yaml.Unmarshal has filled it
  loadCfg,      \* the Config as the validation steps have left it
  loadPc,       \* where LoadConfig is: read, input, output, processors,
                \* returned, panic
  loadIdx,      \* the index of the processor entry to validate next
  loadSteps,    \* the validation steps made so far, with their errors
  loadErr,      \* the error LoadConfig has returned
  loadRet       \* what LoadConfig has returned: none, cfg, nil

procVars == <<cfg, validated, built, proc, builtProc, builtConfig, worker, procPanic>>

chainVars == <<chainCfg, chain, chainState, chainPos, chainIn, chainRec, chainErr>>

loadVars == <<loadOrig, loadCfg, loadPc, loadIdx, loadSteps, loadErr, loadRet>>

srcVars == <<pc, cancelled, aborted, cursor, fetchErrs, fetches, ei, ri, msg, chanClosed,
             msgConsumer, errConsumer, readRecs, published, reported>>

\* NewKafkaConsumer: two unbuffered channels, nothing polled yet.
SrcInit ==
  /\ pc = "created"
  /\ cancelled = FALSE
  /\ aborted = FALSE
  /\ cursor = [p \in Partitions |-> 0]
  /\ fetchErrs = 0
  /\ fetches = EmptyFetches
  /\ ei = 1
  /\ ri = 1
  /\ msg = NoMsg
  /\ chanClosed = [messages |-> FALSE, errors |-> FALSE]
  /\ msgConsumer = "idle"
  /\ errConsumer = "idle"
  /\ readRecs = {}
  /\ published = <<>>
  /\ reported = <<>>

\* The records of one partition a fetch returns: n records from the cursor on,
\* in offset order, with the payloads pl.
PartitionRecords(p, from, n, pl) ==
  [i \in 1..n |-> [Partition |-> p, Offset |-> from + i - 1, Value |-> pl[i]]]

\* A mutant of EachRecordOrder: the records are visited last to first.
EachRecordReversed(r0, r1) ==
  LET all == r0 \o r1 IN [i \in 1..Len(all) |-> all[Len(all) + 1 - i]]

\* Fetches.EachRecord visits the partitions in order and, within a partition,
\* the records in the order the fetch holds them.
EachRecordOrder(r0, r1) == r0 \o r1

\* A mutant of FetchChoices: PollFetches does not watch the context, and
\* blocks when the client has nothing to return.
FetchChoicesIgnoringContext ==
  { [errs |-> e, recs |-> EachRecordOrder(r0, r1), n0 |-> Len(r0), n1 |-> Len(r1)] :
      e \in {<<>>} \cup (IF fetchErrs < MaxFetchErrs THEN {<<"fetch failed">>} ELSE {}),
      r0 \in UNION { { PartitionRecords(0, cursor[0], n, pl) : pl \in [1..n -> Payloads] } :
                       n \in 0..(MaxRecords - cursor[0] - cursor[1]) },
      r1 \in UNION { { PartitionRecords(1, cursor[1], n, pl) : pl \in [1..n -> Payloads] } :
                       n \in 0..(MaxRecords - cursor[0] - cursor[1]) } }

\* The values PollFetches(ctx) can return: fetch errors (the context's error
\* only once the context is done) and, per partition, the next records.
\* Without anything to return the call blocks.
FetchChoices ==
  { [errs |-> e, recs |-> EachRecordOrder(r0, r1), n0 |-> Len(r0), n1 |-> Len(r1)] :
      e \in {<<>>} \cup (IF fetchErrs < MaxFetchErrs THEN {<<"fetch failed">>} ELSE {})
                  \cup (IF cancelled THEN {<<"context canceled">>} ELSE {}),
      r0 \in UNION { { PartitionRecords(0, cursor[0], n, pl) : pl \in [1..n -> Payloads] } :
                       n \in 0..(MaxRecords - cursor[0] - cursor[1]) },
      r1 \in UNION { { PartitionRecords(1, cursor[1], n, pl) : pl \in [1..n -> Payloads] } :
                       n \in 0..(MaxRecords - cursor[0] - cursor[1]) } }

\* A mutant of AfterRecord: the loop goes back to its select as soon as the
\* callback has returned once.
AfterRecordNextFetch(f, i) == "select"

\* Where the poll task goes once the error loop of lines 82-91 is over, and
\* once the callback has returned for record i of the fetch f.
AfterErrs(f) == IF Len(f.recs) > 0 THEN "callback" ELSE "select"
AfterRecord(f, i) == IF i < Len(f.recs) THEN "callback" ELSE "select"

\* A mutant of AfterFetch: a fetch error ends the poll task.
AfterFetchFatal(f) == IF Len(f.errs) > 0 THEN "done" ELSE AfterErrs(f)

\* Lines 81-82: with fetch errors the task enters the loop that reports them.
AfterFetch(f) == IF Len(f.errs) > 0 THEN "errSend" ELSE AfterErrs(f)

\* The callback returns for record ri: its msg goes out of scope, and after the
\* last record so does the loop body's fetches.
CallbackReturns ==
  /\ pc' = AfterRecord(fetches, ri)
  /\ msg' = NoMsg
  /\ IF ri < Len(fetches.recs)
       THEN /\ ri' = ri + 1
            /\ UNCHANGED fetches
       ELSE /\ ri' = 1
            /\ fetches' = EmptyFetches

\* Start: go kc.pollMessages(ctx).
Start ==
  /\ pc = "created" /\ ~aborted
  /\ pc' = "select"
  /\ UNCHANGED <<procVars, chainVars, loadVars>>
  /\ UNCHANGED <<cancelled, aborted, cursor, fetchErrs, fetches, ei, ri, msg, chanClosed,
                 msgConsumer, errConsumer, readRecs, published, reported>>

\* The cancellation signal fires.
Cancel ==
  /\ ~cancelled /\ ~aborted
  /\ cancelled' = TRUE
  /\ UNCHANGED <<procVars, chainVars, loadVars>>
  /\ UNCHANGED <<pc, aborted, cursor, fetchErrs, fetches, ei, ri, msg, chanClosed,
                 msgConsumer, errConsumer, readRecs, published, reported>>

\* Lines 74-78: select { case <-ctx.Done(): return; default: ... }.
PollSelect ==
  /\ pc = "select" /\ ~aborted
  /\ pc' = IF cancelled THEN "done" ELSE "fetch"
  /\ UNCHANGED <<procVars, chainVars, loadVars>>
  /\ UNCHANGED <<cancelled, aborted, cursor, fetchErrs, fetches, ei, ri, msg, chanClosed,
                 msgConsumer, errConsumer, readRecs, published, reported>>

\* Lines 79-82: PollFetches returns; the task enters the error loop or the
\* record callback.
PollFetches ==
  /\ pc = "fetch" /\ ~aborted
  /\ \E f \in FetchChoices :
       /\ Len(f.errs) + Len(f.recs) > 0
       /\ cursor[0] + cursor[1] + Len(f.recs) <= MaxRecords
       /\ fetches' = [errs |-> f.errs, recs |-> f.recs]
       /\ cursor' = [cursor EXCEPT ![0] = @ + f.n0, ![1] = @ + f.n1]
       /\ fetchErrs' = fetchErrs + (IF f.errs = <<"fetch failed">> THEN 1 ELSE 0)
       /\ pc' = AfterFetch(f)
  /\ ei' = 1
  /\ ri' = 1
  /\ UNCHANGED <<procVars, chainVars, loadVars>>
  /\ UNCHANGED <<cancelled, aborted, msg, chanClosed, msgConsumer, errConsumer, readRecs,
                 published, reported>>

\* Line 86: kc.errors <- err.Err is received by the consumer of Errors.
ErrSend ==
  /\ pc = "errSend" /\ ~aborted
  /\ errConsumer = "recv"
  /\ reported' = Append(reported, [kind |-> "fetch", err |-> fetches.errs[ei]])
  /\ errConsumer' = "idle"
  /\ IF ei < Len(fetches.errs)
       THEN /\ ei' = ei + 1
            /\ pc' = "errSend"
            /\ UNCHANGED fetches
       ELSE /\ ei' = 1
            /\ pc' = AfterErrs(fetches)
            /\ fetches' = IF Len(fetches.recs) > 0 THEN fetches ELSE EmptyFetches
  /\ UNCHANGED <<procVars, chainVars, loadVars>>
  /\ UNCHANGED <<cancelled, aborted, cursor, fetchErrs, ri, msg, chanClosed,
                 msgConsumer, readRecs, published>>

\* Lines 87-88: the context is done while the error waits: pollMessages returns.
ErrSendCancelled ==
  /\ pc = "errSend" /\ ~aborted
  /\ cancelled
  /\ pc' = "done"
  /\ UNCHANGED <<procVars, chainVars, loadVars>>
  /\ UNCHANGED <<cancelled, aborted, cursor, fetchErrs, fetches, ei, ri, msg, chanClosed,
                 msgConsumer, errConsumer, readRecs, published, reported>>

\* Lines 94-107: the callback starts on record ri: build the Message,
\* deserialize its value, keep the fields or go and report the error.
Callback ==
  /\ pc = "callback" /\ ~aborted
  /\ LET record == fetches.recs[ri]
         m == FromKafkaFranz(record)
         d == Deserialize(m.Value)
     IN /\ readRecs' = readRecs \cup {<<record.Partition, record.Offset>>}
        /\ IF d.err # NoErr
             THEN /\ msg' = m
                  /\ pc' = "deserErrSend"
             ELSE /\ msg' = [m EXCEPT !.ValueFields = d.fields]
                  /\ pc' = "msgSend"
  /\ UNCHANGED <<procVars, chainVars, loadVars>>
  /\ UNCHANGED <<cancelled, aborted, cursor, fetchErrs, fetches, ei, ri, chanClosed,
                 msgConsumer, errConsumer, published, reported>>

\* Line 101: kc.errors <- err is received; the callback goes on to line 109.
DeserErrSend ==
  /\ pc = "deserErrSend" /\ ~aborted
  /\ errConsumer = "recv"
  /\ reported' = Append(reported, [kind |-> "deserialize",
                                   err |-> Deserialize(msg.Value).err])
  /\ errConsumer' = "idle"
  /\ pc' = "msgSend"
  /\ UNCHANGED <<procVars, chainVars, loadVars>>
  /\ UNCHANGED <<cancelled, aborted, cursor, fetchErrs, fetches, ei, ri, msg, chanClosed,
                 msgConsumer, readRecs, published>>

\* Lines 102-103: the context is done: the callback returns, and EachRecord
\* calls it on the next record.
DeserErrCancelled ==
  /\ pc = "deserErrSend" /\ ~aborted
  /\ cancelled
  /\ CallbackReturns
  /\ UNCHANGED <<procVars, chainVars, loadVars>>
  /\ UNCHANGED <<cancelled, aborted, cursor, fetchErrs, ei, chanClosed,
                 msgConsumer, errConsumer, readRecs, published, reported>>

\* Line 110: kc.messages <- msg is received by the consumer of Messages.
MsgSend ==
  /\ pc = "msgSend" /\ ~aborted
  /\ msgConsumer = "recv"
  /\ published' = Append(published, msg)
  /\ msgConsumer' = "idle"
  /\ CallbackReturns
  /\ UNCHANGED <<procVars, chainVars, loadVars>>
  /\ UNCHANGED <<cancelled, aborted, cursor, fetchErrs, ei, chanClosed,
                 errConsumer, readRecs, reported>>

\* Lines 111-112: the context is done: the callback returns without
\* publishing, and EachRecord calls it on the next record.
MsgSendCancelled ==
  /\ pc = "msgSend" /\ ~aborted
  /\ cancelled
  /\ CallbackReturns
  /\ UNCHANGED <<procVars, chainVars, loadVars>>
  /\ UNCHANGED <<cancelled, aborted, cursor, fetchErrs, ei, chanClosed,
                 msgConsumer, errConsumer, readRecs, published, reported>>

\* A consumer starts receiving from Messages() / Errors() and blocks until
\* the poll task hands a value over.
MsgRecv ==
  /\ msgConsumer = "idle" /\ ~aborted
  /\ msgConsumer' = "recv"
  /\ UNCHANGED <<procVars, chainVars, loadVars>>
  /\ UNCHANGED <<pc, cancelled, aborted, cursor, fetchErrs, fetches, ei, ri, msg, chanClosed,
                 errConsumer, readRecs, published, reported>>

ErrRecv ==
  /\ errConsumer = "idle" /\ ~aborted
  /\ errConsumer' = "recv"
  /\ UNCHANGED <<procVars, chainVars, loadVars>>
  /\ UNCHANGED <<pc, cancelled, aborted, cursor, fetchErrs, fetches, ei, ri, msg, chanClosed,
                 msgConsumer, readRecs, published, reported>>

\* Close: panic("unimplemented").
Close ==
  /\ ~aborted
  /\ aborted' = TRUE
  /\ UNCHANGED <<procVars, chainVars, loadVars>>
  /\ UNCHANGED <<pc, cancelled, cursor, fetchErrs, fetches, ei, ri, msg, chanClosed,
                 msgConsumer, errConsumer, readRecs, published, reported>>

SrcNext ==
  \/ Start
  \/ Cancel
  \/ PollSelect
  \/ PollFetches
  \/ ErrSend
  \/ ErrSendCancelled
  \/ Callback
  \/ DeserErrSend
  \/ DeserErrCancelled
  \/ MsgSend
  \/ MsgSendCancelled
  \/ MsgRecv
  \/ ErrRecv
  \/ Close

\* ------------------------------------------- one processor and its workers
Workers == {1, 2}

\* The option maps a configuration file may give a processor of each type.
TimestampTexts == {Str("2026-01-23T10:00:00Z"), Str("2026-01-23T11:00:00+01:00"),
                   Str("invalid-date")}
TimestampReplayConfigs ==
  { [NoConfig EXCEPT !["target_timestamp"] = tt, !["target_timestamps"] = tts,
                     !["offset"] = off, !["unit"] = u] :
      tt \in {Absent, IntV(5)} \cup TimestampTexts,
      tts \in {Absent} \cup TimestampTexts,
      off \in {Absent, I64(1), I64(0), I64(-1), IntV(1), Str("1")},
      u \in {Absent, Str("bogus")} \cup { Str(x) : x \in availableUnits } }
DropConfigs ==
  { [NoConfig EXCEPT !["field_name"] = f, !["filter_criteria"] = fc] :
      f \in {Absent, Str("status"), IntV(1)},
      fc \in {Absent, Txt(<<"i", "n", "a", "c", "t", "i", "v", "e">>), Txt(<<>>), IntV(1)} }
TransformConfigs ==
  { [NoConfig EXCEPT !["field_name"] = f, !["operation"] = op, !["prefix"] = pre,
                     !["suffix"] = suf, !["params"] = pm, !["params.prefix"] = ppre,
                     !["params.suffix"] = psuf] :
      f \in {Absent, Str("message")},
      op \in {Absent, IntV(1), Str("invalid_op")} \cup { Str(x) : x \in availableOperations },
      pre \in {Absent, Txt(<<"x">>)},
      suf \in {Absent, Txt(<<"!">>)},
      pm \in {MapV},
      ppre \in {Absent, Txt(<<"x">>)},
      psuf \in {Absent, Txt(<<"!">>)} }
  \cup
  { [NoConfig EXCEPT !["field_name"] = f, !["operation"] = op, !["prefix"] = pre,
                     !["suffix"] = suf] :
      f \in {Absent, Str("message")},
      op \in {Absent, Str("invalid_op")} \cup { Str(x) : x \in availableOperations },
      pre \in {Absent, Txt(<<"x">>)},
      suf \in {Absent, Txt(<<"!">>)} }
EnrichConfigs ==
  { [NoConfig EXCEPT !["field_name"] = f, !["field_value"] = v, !["added_field_name"] = af,
                     !["added_field_value"] = av] :
      f \in {Absent, Str("status")},
      v \in {Absent, Txt(<<"v">>)},
      af \in {Absent, Str("status")},
      av \in {Absent, Txt(<<"v">>)} }

ProcessorConfigs ==
  { [Type |-> "timestamp_replay", Config |-> c] : c \in TimestampReplayConfigs }
  \cup { [Type |-> "drop", Config |-> c] : c \in DropConfigs }
  \cup { [Type |-> "transform", Config |-> c] : c \in TransformConfigs }
  \cup { [Type |-> "enrich", Config |-> c] : c \in EnrichConfigs }
  \cup { [Type |-> t, Config |-> NoConfig] : t \in {"passthrough", "filter", "", "unknown_type"} }

\* The Records the workers run through the processor: for a timestamp_replay
\* every timestamp; for the other types a nil valueFields and every shape of
\* the field the processor works on, next to another field.
FieldValues(k) ==
  IF k = "status"
    THEN {Absent, Txt(<<"i", "n", "a", "c", "t", "i", "v", "e">>), Txt(<<"a", "c", "t", "i", "v", "e">>),
          Txt(<<>>), IntV(1)}
    ELSE {Absent, Txt(<<"H", "i">>), IntV(1)}
OtherFieldValues(k) ==
  IF k = "status" THEN {Absent, Txt(<<"a", "c", "t", "i", "v", "e">>)} ELSE {Absent, Txt(<<"H", "i">>)}
TestMessage(ts, vf) ==
  [Partition |-> 0, Offset |-> 0, Value |-> "", Timestamp |-> ts, ValueFields |-> vf]
TestMessages(type) ==
  IF type = "timestamp_replay"
    THEN { TestMessage(ts, MakeMap(NoFields)) : ts \in 0..MaxTime }
    ELSE LET own == IF type = "transform" THEN "message" ELSE "status"
             values(k) == IF k = own THEN FieldValues(k) ELSE OtherFieldValues(k)
         IN { TestMessage(0, NilMap) }
            \cup { TestMessage(0, MakeMap(kv)) :
                     kv \in { f \in [FieldKeys -> UNION { FieldValues(k) : k \in FieldKeys }] :
                                \A k \in FieldKeys : f[k] \in values(k) } }

NoResult == [ret |-> "none", err |-> NoErr, m |-> NoMsg]
IdleWorker == [st |-> "idle", in |-> NoMsg, out |-> NoResult]

ProcIdle ==
  /\ cfg = [Type |-> "passthrough", Config |-> NoConfig]
  /\ validated = [st |-> "none", err |-> NoErr]
  /\ built = [st |-> "none", err |-> NoErr]
  /\ proc = NoProc
  /\ builtProc = NoProc
  /\ builtConfig = NoConfig
  /\ worker = [w \in Workers |-> IdleWorker]
  /\ procPanic = FALSE

\* A ProcessorConfig as the configuration file gives it; nothing validated
\* or constructed yet.
ProcInit ==
  /\ cfg \in ProcessorConfigs
  /\ validated = [st |-> "none", err |-> NoErr]
  /\ built = [st |-> "none", err |-> NoErr]
  /\ proc = NoProc
  /\ builtProc = NoProc
  /\ builtConfig = NoConfig
  /\ worker = [w \in Workers |-> IdleWorker]
  /\ procPanic = FALSE

\* LoadConfig calls processorcfg.Validate before anything is constructed.
DoValidate ==
  /\ ~procPanic
  /\ validated.st = "none" /\ built.st = "none"
  /\ LET r == Validate(cfg.Type, cfg.Config)
     IN /\ cfg' = [cfg EXCEPT !.Config = r.cfg]
        /\ validated' = [st |-> IF r.panic THEN "panic" ELSE IF r.err = NoErr THEN "ok" ELSE "err",
                         err |-> r.err]
        /\ procPanic' = r.panic
  /\ UNCHANGED <<built, proc, builtProc, builtConfig, worker>>
  /\ UNCHANGED <<srcVars, chainVars, loadVars>>

\* NewProcessor(cfg, logger), whether or not the configuration was validated.
DoNewProcessor ==
  /\ ~procPanic
  /\ built.st = "none"
  /\ LET r == NewProcessor(cfg.Type, cfg.Config)
     IN /\ built' = [st |-> IF r.panic THEN "panic" ELSE IF r.err = NoErr THEN "ok" ELSE "err",
                     err |-> r.err]
        /\ proc' = r.proc
        /\ builtProc' = r.proc
        /\ procPanic' = r.panic
  /\ builtConfig' = cfg.Config
  /\ UNCHANGED <<cfg, validated, worker>>
  /\ UNCHANGED <<srcVars, chainVars, loadVars>>

\* Worker w takes a Record and calls Process on the shared processor.
WorkerStart(w) ==
  /\ ~procPanic
  /\ built.st = "ok"
  /\ worker[w].st \in {"idle", "ret"}
  /\ \E m \in TestMessages(cfg.Type) :
       worker' = [worker EXCEPT ![w] = [st |-> "run", in |-> m, out |-> NoResult]]
  /\ UNCHANGED <<cfg, validated, built, proc, builtProc, builtConfig, procPanic>>
  /\ UNCHANGED <<srcVars, chainVars, loadVars>>

\* The Process call of worker w returns.
WorkerProcess(w) ==
  /\ ~procPanic
  /\ worker[w].st = "run"
  /\ LET r == Process(proc, worker[w].in)
     IN /\ worker' = [worker EXCEPT ![w].st = IF r.panic THEN "panic" ELSE "ret",
                                    ![w].out = [ret |-> r.ret, err |-> r.err, m |-> r.m]]
        /\ proc' = r.p
        /\ procPanic' = r.panic
  /\ UNCHANGED <<cfg, validated, built, builtProc, builtConfig>>
  /\ UNCHANGED <<srcVars, chainVars, loadVars>>

ProcNext ==
  \/ DoValidate
  \/ DoNewProcessor
  \/ \E w \in Workers : WorkerStart(w)
  \/ \E w \in Workers : WorkerProcess(w)

\* ------------------------------------------------------ a processor chain
\* The chain steps a configuration may declare: the four string operations
\* on the field "message", a drop on the field "status", a passthrough.
PrefixX == [NoConfig EXCEPT !["field_name"] = Str("message"), !["operation"] = Str("add_prefix"),
                            !["params"] = MapV, !["params.prefix"] = Txt(<<"x">>)]
SuffixBang == [NoConfig EXCEPT !["field_name"] = Str("message"), !["operation"] = Str("add_suffix"),
                               !["params"] = MapV, !["params.suffix"] = Txt(<<"!">>)]
StringOp(op) == [NoConfig EXCEPT !["field_name"] = Str("message"), !["operation"] = Str(op),
                                 !["params"] = MapV]
DropInactive == [NoConfig EXCEPT !["field_name"] = Str("status"),
                                 !["filter_criteria"] = Txt(<<"i", "n", "a", "c", "t", "i", "v", "e">>)]
ChainSteps ==
  { [Type |-> "transform", Config |-> c] :
      c \in {PrefixX, SuffixBang, StringOp("uppercase"), StringOp("lowercase"),
             StringOp("add_prefix")} }
  \cup {[Type |-> "drop", Config |-> DropInactive], [Type |-> "passthrough", Config |-> NoConfig],
        [Type |-> "filter", Config |-> NoConfig]}

\* The sequences of at most n chain steps.
RECURSIVE ChainsUpTo(_)
ChainsUpTo(n) ==
  IF n = 0 THEN {<<>>}
  ELSE LET shorter == ChainsUpTo(n - 1)
       IN shorter \cup { Append(c, st) : c \in { x \in shorter : Len(x) = n - 1 }, st \in ChainSteps }

\* The Records given to the chain.
ChainRecords ==
  { TestMessage(0, MakeMap([NoFields EXCEPT !["message"] = msgv, !["status"] = st])) :
      msgv \in {Txt(<<"H", "E", "L", "L", "O">>), Txt(<<"h", "i">>)},
      st \in {Txt(<<"i", "n", "a", "c", "t", "i", "v", "e">>), Txt(<<"a", "c", "t", "i", "v", "e">>)} }

ChainIdle ==
  /\ chainCfg = <<>>
  /\ chain = <<>>
  /\ chainState = "created"
  /\ chainPos = 0
  /\ chainIn = NoMsg
  /\ chainRec = NoMsg
  /\ chainErr = NoErr

\* The declared chain, nothing constructed yet.
ChainInit ==
  /\ chainCfg \in ChainsUpTo(MaxChain) \ {<<>>}
  /\ chain = <<>>
  /\ chainState = "created"
  /\ chainPos = 0
  /\ chainIn = NoMsg
  /\ chainRec = NoMsg
  /\ chainErr = NoErr

\* The chain is built once: NewProcessor for each declared step, in order;
\* an error of any constructor fails the startup.
ChainBuild ==
  /\ chainState = "created"
  /\ LET rs == [i \in 1..Len(chainCfg) |-> NewProcessor(chainCfg[i].Type, chainCfg[i].Config)]
     IN IF \E i \in 1..Len(chainCfg) : rs[i].panic \/ rs[i].err # NoErr
          THEN /\ chainState' = "failed"
               /\ chain' = <<>>
               /\ chainErr' = LET i == CHOOSE k \in 1..Len(chainCfg) :
                                          /\ rs[k].panic \/ rs[k].err # NoErr
                                          /\ \A l \in 1..(k - 1) : ~rs[l].panic /\ rs[l].err = NoErr
                               IN IF rs[i].panic THEN "panic" ELSE rs[i].err
          ELSE /\ chainState' = "idle"
               /\ chain' = [i \in 1..Len(chainCfg) |-> rs[i].proc]
               /\ chainErr' = NoErr
  /\ UNCHANGED <<chainCfg, chainPos, chainIn, chainRec>>
  /\ UNCHANGED <<srcVars, procVars, loadVars>>

\* A Record enters the chain.
ChainAdmit ==
  /\ chainState \in {"idle", "done", "dropped", "error"}
  /\ \E m \in ChainRecords :
       /\ chainIn' = m
       /\ chainRec' = m
  /\ chainPos' = 1
  /\ chainState' = "running"
  /\ chainErr' = NoErr
  /\ UNCHANGED <<chainCfg, chain>>
  /\ UNCHANGED <<srcVars, procVars, loadVars>>

\* The next processor of the chain is applied to the result of the previous
\* one; an error or a drop stops the chain.
ChainStep ==
  /\ chainState = "running"
  /\ LET r == Process(chain[chainPos], chainRec)
     IN /\ chainRec' = r.m
        /\ chainErr' = r.err
        /\ chainState' = IF r.panic THEN "panic"
                          ELSE IF r.err # NoErr THEN "error"
                          ELSE IF r.ret = "nil" THEN "dropped"
                          ELSE IF chainPos = Len(chain) THEN "done"
                          ELSE "running"
        /\ chainPos' = IF ~r.panic /\ r.err = NoErr /\ r.ret = "msg" /\ chainPos < Len(chain)
                          THEN chainPos + 1 ELSE chainPos
  /\ UNCHANGED <<chainCfg, chain, chainIn>>
  /\ UNCHANGED <<srcVars, procVars, loadVars>>

ChainNext ==
  \/ ChainBuild
  \/ ChainAdmit
  \/ ChainStep

\* ------------------------------------------------------------ LoadConfig
\* The sections a configuration file may give.
ValidInput ==
  [Brokers |-> <<"localhost:9092">>, Topic |-> "in", ConsumerGroup |-> "", Format |-> "json",
   SchemaRegistry |-> "", Workers |-> 0, Offset_reset |-> NilString,
   Enable_auto_commit |-> NilBool, Auto_commit_interval |-> NilString, Min_bytes |-> NilInt,
   Max_bytes |-> NilInt, Max_wait_time |-> NilInt, Session_timeout |-> NilString,
   Heartbeat_interval |-> NilString]
InputConfigs ==
  { [ValidInput EXCEPT !.Brokers = b, !.Topic = t, !.Format = f, !.SchemaRegistry = sr,
                       !.Workers = w, !.Offset_reset = o, !.Session_timeout = st] :
      b \in {<<>>, <<"localhost:9092">>}, t \in {"", "in"},
      f \in {"json", "avro", "protobuf", "xml"}, sr \in {"", "http://registry"},
      w \in {-1, 4}, o \in {NilString, Ptr("earliest"), Ptr("sometimes")},
      st \in {NilString, Ptr("soon")} }
  \cup { [ValidInput EXCEPT !.Enable_auto_commit = Ptr(TRUE), !.Auto_commit_interval = a,
                            !.Heartbeat_interval = h] :
           a \in {NilString, Ptr("5s"), Ptr("soon")}, h \in {NilString, Ptr("3s"), Ptr("soon")} }
ValidOutput ==
  [Type |-> "kafka", Brokers |-> <<"localhost:9092">>, Topic |-> "out", Workers |-> 0,
   Format |-> "json", SchemaRegistry |-> "", Batch_size |-> NilInt, Compression |-> NilString,
   Auto_create_topic |-> NilBool, Request_timeout |-> NilString, Retry_backoff |-> NilString,
   Max_retries |-> NilInt]
OutputConfigs ==
  { [ValidOutput EXCEPT !.Type = ty, !.Brokers = b, !.Topic = t, !.Format = f,
                        !.SchemaRegistry = sr, !.Workers = w, !.Compression = c] :
      ty \in {"kafka", "file", ""}, b \in {<<>>, <<"localhost:9092">>}, t \in {"", "out"},
      f \in {"json", "avro", "protobuf", "xml"}, sr \in {"", "http://registry"},
      w \in {-1, 4}, c \in {NilString, Ptr("gzip"), Ptr("brotli")} }
  \cup { [ValidOutput EXCEPT !.Batch_size = bs, !.Retry_backoff = rb, !.Request_timeout = rt,
                             !.Max_retries = mr, !.Auto_create_topic = act] :
           bs \in {NilInt, Ptr(0), Ptr(500), Ptr(100000), Ptr(100001)},
           rb \in {NilString, Ptr("2s"), Ptr("soon")},
           rt \in {NilString, Ptr("30s"), Ptr("soon")},
           mr \in {NilInt, Ptr(5)}, act \in {NilBool, Ptr(TRUE)} }

\* The processor entries a configuration file may give: accepted ones, one
\* with a missing option, one of an unknown type, one whose target_timestamp
\* is not a string.
LoadProcessorChoices ==
  { [Type |-> "passthrough", Config |-> NoConfig],
    [Type |-> "timestamp_replay",
     Config |-> [NoConfig EXCEPT !["target_timestamp"] = Str("2026-01-23T10:00:00Z")]],
    [Type |-> "drop", Config |-> [NoConfig EXCEPT !["field_name"] = Str("status")]],
    [Type |-> "filter", Config |-> NoConfig],
    [Type |-> "timestamp_replay", Config |-> [NoConfig EXCEPT !["target_timestamp"] = IntV(5)]] }

RECURSIVE ProcessorListsUpTo(_)
ProcessorListsUpTo(n) ==
  IF n = 0 THEN {<<>>}
  ELSE LET shorter == ProcessorListsUpTo(n - 1)
       IN shorter \cup { Append(l, e) : l \in { x \in shorter : Len(x) = n - 1 },
                                        e \in LoadProcessorChoices }

\* The Configs yaml.Unmarshal may produce.
LoadConfigs ==
  { [Input |-> ic, Output |-> ValidOutput, Processors |-> <<>>] : ic \in InputConfigs }
  \cup { [Input |-> ValidInput, Output |-> oc, Processors |-> <<>>] : oc \in OutputConfigs }
  \cup { [Input |-> ic, Output |-> oc, Processors |-> ps] :
           ic \in {ValidInput, [ValidInput EXCEPT !.Topic = ""]},
           oc \in {ValidOutput, [ValidOutput EXCEPT !.Format = "avro"]},
           ps \in ProcessorListsUpTo(MaxProcessors) }

LoadIdle ==
  /\ loadOrig = [Input |-> ValidInput, Output |-> ValidOutput, Processors |-> <<>>]
  /\ loadCfg = loadOrig
  /\ loadPc = "read"
  /\ loadIdx = 0
  /\ loadSteps = <<>>
  /\ loadErr = NoErr
  /\ loadRet = "none"

\* LoadConfig is called on a file.
LoadInit ==
  /\ loadOrig \in LoadConfigs
  /\ loadCfg = loadOrig
  /\ loadPc = "read"
  /\ loadIdx = 0
  /\ loadSteps = <<>>
  /\ loadErr = NoErr
  /\ loadRet = "none"

\* A mutant of AfterValidation: a failed output section is logged and the
\* validation goes on.
AfterValidationLenient(step, err) ==
  IF err # NoErr /\ step # "output" THEN "failed" ELSE "next"

\* LoadConfig after a validation step: a non-nil error is returned at once.
AfterValidation(step, err) == IF err # NoErr THEN "failed" ELSE "next"

\* os.ReadFile and yaml.Unmarshal: either may fail, and LoadConfig returns.
LoadRead ==
  /\ loadPc = "read"
  /\ \E outcome \in {NoErr, "read failed", "failed to parse YAML"} :
       /\ loadPc' = IF outcome = NoErr THEN "input" ELSE "returned"
       /\ loadErr' = outcome
       /\ loadRet' = IF outcome = NoErr THEN "none" ELSE "nil"
  /\ UNCHANGED <<loadOrig, loadCfg, loadIdx, loadSteps>>
  /\ UNCHANGED <<srcVars, procVars, chainVars>>

LoadValidateInput ==
  /\ loadPc = "input"
  /\ LET r == InputValidate(loadCfg.Input)
         failed == AfterValidation("input", r.err) = "failed"
     IN /\ loadCfg' = [loadCfg EXCEPT !.Input = r.cfg]
        /\ loadSteps' = Append(loadSteps, [step |-> "input", idx |-> 0, err |-> r.err])
        /\ loadPc' = IF failed THEN "returned" ELSE "output"
        /\ loadErr' = IF failed THEN r.err ELSE NoErr
        /\ loadRet' = IF failed THEN "nil" ELSE "none"
  /\ UNCHANGED <<loadOrig, loadIdx>>
  /\ UNCHANGED <<srcVars, procVars, chainVars>>

LoadValidateOutput ==
  /\ loadPc = "output"
  /\ LET r == OutputValidate(loadCfg.Output)
         failed == AfterValidation("output", r.err) = "failed"
     IN /\ loadCfg' = [loadCfg EXCEPT !.Output = r.cfg]
        /\ loadSteps' = Append(loadSteps, [step |-> "output", idx |-> 0, err |-> r.err])
        /\ loadPc' = IF failed THEN "returned" ELSE "processors"
        /\ loadErr' = IF failed THEN r.err ELSE NoErr
        /\ loadRet' = IF failed THEN "nil" ELSE "none"
        /\ loadIdx' = IF failed THEN loadIdx ELSE 1
  /\ UNCHANGED <<loadOrig>>
  /\ UNCHANGED <<srcVars, procVars, chainVars>>

\* One turn of the loop over cfg.Processors.
LoadValidateProcessor ==
  /\ loadPc = "processors"
  /\ loadIdx <= Len(loadCfg.Processors)
  /\ LET e == loadCfg.Processors[loadIdx]
         r == Validate(e.Type, e.Config)
         failed == AfterValidation("processor", r.err) = "failed"
     IN /\ loadCfg' = [loadCfg EXCEPT !.Processors[loadIdx].Config = r.cfg]
        /\ loadSteps' = Append(loadSteps,
                                [step |-> "processor", idx |-> loadIdx,
                                 err |-> IF r.panic THEN "panic" ELSE r.err])
        /\ loadPc' = IF r.panic THEN "panic" ELSE IF failed THEN "returned" ELSE "processors"
        /\ loadErr' = IF ~r.panic /\ failed THEN r.err ELSE NoErr
        /\ loadRet' = IF ~r.panic /\ failed THEN "nil" ELSE "none"
        /\ loadIdx' = IF r.panic \/ failed THEN loadIdx ELSE loadIdx + 1
  /\ UNCHANGED <<loadOrig>>
  /\ UNCHANGED <<srcVars, procVars, chainVars>>

\* The loop is over: LoadConfig returns the Config.
LoadReturn ==
  /\ loadPc = "processors"
  /\ loadIdx > Len(loadCfg.Processors)
  /\ loadPc' = "returned"
  /\ loadRet' = "cfg"
  /\ UNCHANGED <<loadOrig, loadCfg, loadIdx, loadSteps, loadErr>>
  /\ UNCHANGED <<srcVars, procVars, chainVars>>

LoadNext ==
  \/ LoadRead
  \/ LoadValidateInput
  \/ LoadValidateOutput
  \/ LoadValidateProcessor
  \/ LoadReturn

\* ---------------------------------------------------------- specifications
vars == <<srcVars, procVars, chainVars, loadVars>>

\* The Source: the poll task, the consumers of its channels, cancellation.
Init == SrcInit /\ ProcIdle /\ ChainIdle /\ LoadIdle
Next == SrcNext
Spec == Init /\ [][Next]_vars

\* One processor: validation, construction, concurrent Process calls.
ProcSpecInit == SrcInit /\ ProcInit /\ ChainIdle /\ LoadIdle
ProcSpec == ProcSpecInit /\ [][ProcNext]_vars

\* One chain: construction, then Records run through it one at a time.
ChainSpecInit == SrcInit /\ ProcIdle /\ ChainInit /\ LoadIdle
ChainSpec == ChainSpecInit /\ [][ChainNext]_vars

\* One call of LoadConfig.
LoadSpecInit == SrcInit /\ ProcIdle /\ ChainIdle /\ LoadInit
LoadSpec == LoadSpecInit /\ [][LoadNext]_vars

\* ------------------------------------------------------- claims on the Source
\* The poll task is between two batches or has returned.
Quiescent == pc \in {"select", "fetch", "done"}

\* The deserialization errors received from Errors.
DeserReported == { i \in 1..Len(reported) : reported[i].kind = "deserialize" }
FetchReported == { i \in 1..Len(reported) : reported[i].err = "fetch failed" }

\* C1: every Message received from the Messages channel has a non-nil
\* ValueFields, and no record whose payload fails to deserialize is received
\* from it.
C1_PublishedHaveValueFields ==
  \A i \in 1..Len(published) :
    /\ ~published[i].ValueFields.isNil
    /\ Deserialize(published[i].Value).err = NoErr

\* C2: once the poll task has stopped after cancellation, both the Messages
\* and the Errors channel are closed.
C2_ChannelsClosedAfterStop ==
  (cancelled /\ pc = "done") => (chanClosed.messages /\ chanClosed.errors)

\* C4: at a quiescent point before cancellation every record read is
\* accounted for exactly once, as forwarded on Messages or as errored.
C4_Conservation ==
  (Quiescent /\ ~cancelled) =>
     Cardinality(readRecs) = Len(published) + Cardinality(DeserReported)

\* C5: within a partition the Messages are received in non-decreasing offset
\* order.
C5_PartitionOrder ==
  \A i, j \in 1..Len(published) :
    (i < j /\ published[i].Partition = published[j].Partition)
      => published[i].Offset <= published[j].Offset

\* Two records of one partition have been received in offset order, and a
\* later PollFetches call has returned the next record of that partition,
\* which the task is handing over.
C5_Witness ==
  /\ \E i, j \in 1..Len(published) :
       /\ i < j
       /\ published[i].Partition = published[j].Partition
       /\ published[i].Offset < published[j].Offset
       /\ msg.Partition = published[j].Partition
       /\ msg.Offset > published[j].Offset
  /\ pc = "msgSend"
  /\ Len(fetches.recs) = 1

\* C6: the poll task returns only on cancellation, and while cancellation has
\* not fired every fetch error PollFetches returned has been received from
\* Errors or is the one the task is handing over.
C6_FetchErrorNonFatal ==
  /\ pc = "done" => cancelled
  /\ ~cancelled =>
       Cardinality(FetchReported) + (IF pc = "errSend" THEN Len(fetches.errs) - ei + 1 ELSE 0)
         = fetchErrs

\* A fetch error has been received from Errors and, without cancellation, the
\* poll task has gone on to its next PollFetches call.
C6_Witness ==
  /\ ~cancelled
  /\ FetchReported # {}
  /\ pc = "fetch"
  /\ Len(published) > 0

\* --------------------------------------------------- claims on processors
\* The errors of Process that come from the configuration.
ConfigErrors ==
  {"invalid time unit for offset", "parsing time: cannot parse",
   "missing or invalid 'prefix' parameter for add_prefix operation",
   "missing or invalid 'suffix' parameter for add_suffix operation",
   "unknown transformation operation"}

\* The options the validator of each type examines.
ValidatorKeys(type) ==
  CASE type = "timestamp_replay" -> {"target_timestamp", "offset", "unit", "parsed_timestamp"}
    [] type = "transform" -> {"field_name", "operation", "prefix", "suffix"}
    [] type = "drop" -> {"field_name", "filter_criteria"}
    [] type = "enrich" -> {"field_name", "field_value"}
    [] OTHER -> {}

\* C3: a processor built from a configuration that ProcessorConfig.Validate
\* has accepted (and that gives no option but those the validator examines)
\* never returns an error caused by the configuration from Process.
C3_ValidatedNeverFailsInProcess ==
  ( /\ validated.st = "ok"
    /\ built.st = "ok"
    /\ \A k \in OptKeys : Has(builtConfig, k) => k \in ValidatorKeys(cfg.Type) ) =>
    \A w \in Workers : worker[w].st = "ret" => worker[w].out.err \notin ConfigErrors

\* C7: Process calls leave the shared processor and the option map it was
\* built from as construction left them, and every call returns what a call
\* on the processor as constructed returns for its Record.
C7_ProcessorImmutable ==
  /\ built.st = "ok" => (proc = builtProc /\ cfg.Config = builtConfig)
  /\ \A w \in Workers :
       worker[w].st = "ret" =>
         LET r == Process(builtProc, worker[w].in)
         IN worker[w].out = [ret |-> r.ret, err |-> r.err, m |-> r.m]

\* A timestamp_replay with a target has changed the Record of one worker
\* while the other worker is inside its Process call.
C7_Witness ==
  /\ proc.kind = "timestamp_replay"
  /\ proc.TargetTimestamps # Absent
  /\ worker[1].st = "ret"
  /\ worker[1].out.m.Timestamp # worker[1].in.Timestamp
  /\ worker[2].st = "run"
  /\ worker[2].in # worker[1].in

MissingRequiredOption(type, c) ==
  \/ /\ type = "transform"
     /\ \/ c["operation"] = Str("add_prefix") /\ ~Has(c, "prefix") /\ ~Has(c, "params.prefix")
        \/ c["operation"] = Str("add_suffix") /\ ~Has(c, "suffix") /\ ~Has(c, "params.suffix")
  \/ /\ type = "enrich"
     /\ \/ ~Has(c, "field_name") /\ ~Has(c, "added_field_name")
        \/ ~Has(c, "field_value") /\ ~Has(c, "added_field_value")
  \/ /\ type = "timestamp_replay"
     /\ ~Has(c, "target_timestamp") /\ ~Has(c, "target_timestamps") /\ ~Has(c, "offset")

\* C9: NewProcessor returns an error when a required option is missing.
C9_MissingOptionFailsConstruction ==
  (built.st # "none" /\ MissingRequiredOption(cfg.Type, builtConfig)) => built.st = "err"

\* C10: a timestamp_replay built from an option map whose only option is a
\* valid target_timestamp returns every Record with its timestamp set to
\* that instant, and no error.
C10_TargetTimestampReplayed ==
  ( /\ cfg.Type = "timestamp_replay"
    /\ built.st = "ok"
    /\ IsString(builtConfig["target_timestamp"])
    /\ ParseRFC3339(builtConfig["target_timestamp"].s).err = NoErr
    /\ \A k \in OptKeys \ {"target_timestamp", "parsed_timestamp"} : ~Has(builtConfig, k) )
  => \A w \in Workers :
       worker[w].st = "ret" =>
         /\ worker[w].out.ret = "msg"
         /\ worker[w].out.err = NoErr
         /\ worker[w].out.m.Timestamp = ParseRFC3339(builtConfig["target_timestamp"].s).t

\* The length of one unit of the offset, in seconds.
UnitSeconds(unit) ==
  CASE unit = "seconds" -> 1
    [] unit = "minutes" -> 60
    [] unit = "hours" -> 3600

\* C11: a timestamp_replay built from an integer offset, a unit among
\* seconds, minutes and hours and no target timestamp returns every Record
\* with its timestamp moved by offset * unit, and no error.
C11_OffsetReplayed ==
  ( /\ cfg.Type = "timestamp_replay"
    /\ built.st = "ok"
    /\ builtConfig["offset"].t \in {"int", "int64"}
    /\ IsString(builtConfig["unit"])
    /\ builtConfig["unit"].s \in {"seconds", "minutes", "hours"}
    /\ ~Has(builtConfig, "target_timestamp")
    /\ ~Has(builtConfig, "target_timestamps") )
  => \A w \in Workers :
       worker[w].st = "ret" =>
         /\ worker[w].out.ret = "msg"
         /\ worker[w].out.err = NoErr
         /\ worker[w].out.m.Timestamp =
              worker[w].in.Timestamp + builtConfig["offset"].n * UnitSeconds(builtConfig["unit"].s)

\* C12: when Process returns an error the Record it was given is as it was
\* before the call: its timestamp and every entry of its valueFields.
C12_ErrorLeavesRecord ==
  \A w \in Workers :
    (worker[w].st = "ret" /\ worker[w].out.err # NoErr) =>
      /\ worker[w].out.m.Timestamp = worker[w].in.Timestamp
      /\ worker[w].out.m.ValueFields = worker[w].in.ValueFields

\* A timestamp_replay whose target does not parse has failed on a Record
\* whose timestamp is not the zero instant.
C12_Witness ==
  /\ proc.kind = "timestamp_replay"
  /\ \E w \in Workers :
       /\ worker[w].st = "ret"
       /\ worker[w].out.err = "parsing time: cannot parse"
       /\ worker[w].in.Timestamp = MaxTime

\* C13: a drop processor built from a string field_name f and a string
\* filter_criteria c returns no Record and no error exactly when
\* valueFields[f] exists, is a string and equals c, and otherwise returns the
\* Record unchanged with no error.
C13_DropExactlyOnMatch ==
  ( /\ cfg.Type = "drop"
    /\ built.st = "ok"
    /\ IsString(builtConfig["field_name"])
    /\ IsString(builtConfig["filter_criteria"]) )
  => \A w \in Workers :
       worker[w].st = "ret" =>
         LET v == Lookup(worker[w].in.ValueFields, builtConfig["field_name"].s)
             matches == v # Absent /\ IsString(v) /\ v.cs = builtConfig["filter_criteria"].cs
         IN /\ worker[w].out.err = NoErr
            /\ matches => worker[w].out.ret = "nil"
            /\ ~matches => (worker[w].out.ret = "msg" /\ worker[w].out.m = worker[w].in)

\* What a string operation makes of the text cs, given the prefix and the
\* suffix the processor holds.
TransformedText(op, cs, prefix, suffix) ==
  CASE op = "uppercase" -> ToUpper(cs)
    [] op = "lowercase" -> ToLower(cs)
    [] op = "add_prefix" -> prefix \o cs
    [] op = "add_suffix" -> cs \o suffix

\* C14: a transform processor built from a string field_name f and a string
\* operation op (with the string prefix or suffix the operation needs)
\* returns the Record unchanged and no error when valueFields[f] is missing
\* or is not a string; otherwise it returns the Record with valueFields[f]
\* replaced by op applied to the string, every other field unchanged.
C14_TransformReplacesField ==
  ( /\ cfg.Type = "transform"
    /\ built.st = "ok"
    /\ IsString(builtConfig["field_name"])
    /\ IsString(builtConfig["operation"])
    /\ builtConfig["operation"].s = "add_prefix" => IsString(builtProc.params.prefix)
    /\ builtConfig["operation"].s = "add_suffix" => IsString(builtProc.params.suffix) )
  => \A w \in Workers :
       worker[w].st = "ret" =>
         LET f == builtConfig["field_name"].s
             v == Lookup(worker[w].in.ValueFields, f)
         IN /\ worker[w].out.ret = "msg"
            /\ worker[w].out.err = NoErr
            /\ worker[w].out.m =
                 IF v = Absent \/ ~IsString(v)
                   THEN worker[w].in
                   ELSE [worker[w].in EXCEPT
                           !.ValueFields.kv[f] =
                              Txt(TransformedText(builtConfig["operation"].s, v.cs,
                                                  builtProc.params.prefix.cs,
                                                  builtProc.params.suffix.cs))]

\* An add_prefix transform has put its prefix in front of a string field, and
\* has returned a Record whose field is not a string as it was.
C14_Witness ==
  /\ proc.kind = "transform"
  /\ proc.operation = "add_prefix"
  /\ worker[1].st = "ret"
  /\ worker[1].in.ValueFields.kv["message"] = Txt(<<"H", "i">>)
  /\ worker[1].out.m.ValueFields.kv["message"] = Txt(<<"x", "H", "i">>)
  /\ worker[2].st = "ret"
  /\ worker[2].in.ValueFields.kv["message"] = IntV(1)
  /\ worker[2].out.m = worker[2].in

\* C15: an enrich processor built from an option map that gives field_name f
\* and field_value v (and nothing else) returns every Record with
\* valueFields[f] = v, every other field unchanged, and no error.
C15_EnrichSetsField ==
  ( /\ cfg.Type = "enrich"
    /\ built.st = "ok"
    /\ IsString(builtConfig["field_name"])
    /\ Has(builtConfig, "field_value")
    /\ \A k \in OptKeys \ {"field_name", "field_value"} : ~Has(builtConfig, k) )
  => \A w \in Workers :
       (worker[w].st = "ret" /\ ~worker[w].in.ValueFields.isNil) =>
         /\ worker[w].out.ret = "msg"
         /\ worker[w].out.err = NoErr
         /\ worker[w].out.m =
              [worker[w].in EXCEPT
                 !.ValueFields.kv[builtConfig["field_name"].s] = builtConfig["field_value"]]

\* C17: every Process call returns one of (Record, no error), (no Record, no
\* error), (no Record, error); none returns a Record together with an error,
\* and only a drop processor returns no Record and no error.
C17_OutcomesExclusive ==
  \A w \in Workers :
    worker[w].st = "ret" =>
      /\ worker[w].out.ret \in {"msg", "nil"}
      /\ ~(worker[w].out.ret = "msg" /\ worker[w].out.err # NoErr)
      /\ (worker[w].out.ret = "nil" /\ worker[w].out.err = NoErr) => proc.kind = "drop"

\* One worker's transform has failed on a Record while the other worker's
\* call has kept its Record.
C17_Witness ==
  /\ proc.kind = "transform"
  /\ worker[1].st = "ret" /\ worker[1].out.ret = "nil" /\ worker[1].out.err # NoErr
  /\ worker[2].st = "ret" /\ worker[2].out.ret = "msg" /\ worker[2].out.err = NoErr

\* C18: every call of a passthrough processor returns the Record it was
\* given, every field unchanged, and no error.
C18_PassthroughIdentity ==
  proc.kind = "passthrough" =>
    \A w \in Workers :
      worker[w].st = "ret" =>
        /\ worker[w].out.ret = "msg"
        /\ worker[w].out.err = NoErr
        /\ worker[w].out.m = worker[w].in

\* A passthrough has returned from two calls on different Records, one with
\* fields and one with a nil valueFields.
C18_Witness ==
  /\ proc.kind = "passthrough"
  /\ worker[1].st = "ret"
  /\ worker[1].in.ValueFields.kv["status"] # Absent
  /\ worker[2].st = "ret"
  /\ worker[2].in.ValueFields.isNil

\* ------------------------------------------------------ claims on the chain
\* The left-to-right composition of the Process functions of the processors
\* ps on the Record m.
RECURSIVE Compose(_, _)
Compose(ps, m) == IF ps = <<>> THEN m ELSE Compose(Tail(ps), Process(Head(ps), m).m)

\* The processors NewProcessor builds from the declared steps cs.
Built(cs) == [i \in 1..Len(cs) |-> NewProcessor(cs[i].Type, cs[i].Config).proc]

TransformStep(c) == [Type |-> "transform", Config |-> c]
Hello == Txt(<<"H", "E", "L", "L", "O">>)

\* C16 as stated: the result of a chain is the left-to-right composition of
\* the Process functions, and the chains [add_prefix("x"), lowercase] and
\* [lowercase, add_prefix("x")] give different results on "HELLO".
C16_ChainOrderDistinguished ==
  /\ chainState = "done" => chainRec = Compose(chain, chainIn)
  /\ ( /\ chainState = "done"
       /\ chainCfg = <<TransformStep(PrefixX), TransformStep(StringOp("lowercase"))>>
       /\ chainIn.ValueFields.kv["message"] = Hello )
     => chainRec # Compose(Built(<<TransformStep(StringOp("lowercase")), TransformStep(PrefixX)>>),
                           chainIn)

\* C16 as amended: the result of a chain is the left-to-right composition of
\* the Process functions; on "HELLO" the chains [add_prefix("x"), uppercase]
\* and [uppercase, add_prefix("x")] give "XHELLO" and "xHELLO", and the
\* chains [add_prefix("x"), lowercase] and [lowercase, add_prefix("x")] both
\* give "xhello".
C16_ChainComposition ==
  /\ chainState = "done" => chainRec = Compose(chain, chainIn)
  /\ (chainState = "done" /\ chainIn.ValueFields.kv["message"] = Hello) =>
       LET out == chainRec.ValueFields.kv["message"]
       IN /\ chainCfg = <<TransformStep(PrefixX), TransformStep(StringOp("uppercase"))>>
               => out = Txt(<<"X", "H", "E", "L", "L", "O">>)
          /\ chainCfg = <<TransformStep(StringOp("uppercase")), TransformStep(PrefixX)>>
               => out = Txt(<<"x", "H", "E", "L", "L", "O">>)
          /\ chainCfg = <<TransformStep(PrefixX), TransformStep(StringOp("lowercase"))>>
               => out = Txt(<<"x", "h", "e", "l", "l", "o">>)
          /\ chainCfg = <<TransformStep(StringOp("lowercase")), TransformStep(PrefixX)>>
               => out = Txt(<<"x", "h", "e", "l", "l", "o">>)

\* The chain [add_prefix("x"), uppercase] has run to its end on "HELLO".
C16_Witness ==
  /\ chainState = "done"
  /\ chainCfg = <<TransformStep(PrefixX), TransformStep(StringOp("uppercase"))>>
  /\ chainIn.ValueFields.kv["message"] = Hello
  /\ chainRec.ValueFields.kv["message"] = Txt(<<"X", "H", "E", "L", "L", "O">>)

\* ------------------------------------------------- claims on configuration
\* The error of the first failing check of a section, in the order type,
\* brokers, topic, format, schema registry; NoErr when none of them fails.
\* An input section has no type.
RequiredFieldError(section, hasType) ==
  IF hasType /\ section.Type # "kafka" THEN "unsupported output type"
  ELSE IF section.Brokers = <<>> THEN "brokers is required and cannot be empty"
  ELSE IF section.Topic = "" THEN "topic is required and cannot be empty"
  ELSE IF section.Format \notin {"json", "avro", "protobuf", "string"} THEN "unsupported format"
  ELSE IF section.Format \in {"avro", "protobuf"} /\ section.SchemaRegistry = ""
    THEN "schema_registry_url is required for AVRO and PROTOBUF formats"
  ELSE NoErr

\* C19: InputConfig.Validate and OutputConfig.Validate return the error of
\* the first failing check among type, brokers, topic, format and schema
\* registry, and return an error for an offset_reset outside earliest and
\* latest and for a compression outside none, gzip, snappy, lz4 and zstd.
C19_SectionErrors ==
  \A i \in 1..Len(loadSteps) :
    /\ loadSteps[i].step = "input" =>
         /\ RequiredFieldError(loadOrig.Input, FALSE) # NoErr
              => loadSteps[i].err = RequiredFieldError(loadOrig.Input, FALSE)
         /\ ( /\ ~loadOrig.Input.Offset_reset.isNil
              /\ loadOrig.Input.Offset_reset.v \notin {"earliest", "latest"} )
              => loadSteps[i].err # NoErr
    /\ loadSteps[i].step = "output" =>
         /\ RequiredFieldError(loadOrig.Output, TRUE) # NoErr
              => loadSteps[i].err = RequiredFieldError(loadOrig.Output, TRUE)
         /\ ( /\ ~loadOrig.Output.Compression.isNil
              /\ loadOrig.Output.Compression.v \notin {"none", "gzip", "snappy", "lz4", "zstd"} )
              => loadSteps[i].err # NoErr

\* An output section with format protobuf and no schema registry, and an
\* empty topic, has been refused for its topic after the input section was
\* accepted.
C19_Witness ==
  /\ Len(loadSteps) = 2
  /\ loadSteps[1].err = NoErr
  /\ loadOrig.Output.Format = "protobuf"
  /\ loadOrig.Output.SchemaRegistry = ""
  /\ loadOrig.Output.Topic = ""
  /\ loadSteps[2].err = "topic is required and cannot be empty"

\* C20: LoadConfig validates the input section, then the output section,
\* then the processor entries by index; it makes no step after a failing one
\* and returns that step's error and no Config; it returns a Config only
\* when the input section, the output section and every processor entry pass
\* validation.
C20_LoadConfigFailFast ==
  /\ \A i \in 1..Len(loadSteps) :
       /\ i = 1 => loadSteps[i].step = "input"
       /\ i = 2 => loadSteps[i].step = "output"
       /\ i > 2 => (loadSteps[i].step = "processor" /\ loadSteps[i].idx = i - 2)
       /\ i < Len(loadSteps) => loadSteps[i].err = NoErr
  /\ (loadSteps # <<>> /\ loadSteps[Len(loadSteps)].err \notin {NoErr, "panic"}) =>
       /\ loadPc = "returned"
       /\ loadRet = "nil"
       /\ loadErr = loadSteps[Len(loadSteps)].err
  /\ loadErr # NoErr => loadRet = "nil"
  /\ loadRet = "cfg" =>
       /\ loadErr = NoErr
       /\ Len(loadSteps) = 2 + Len(loadOrig.Processors)
       /\ InputValidate(loadOrig.Input).err = NoErr
       /\ OutputValidate(loadOrig.Output).err = NoErr
       /\ \A k \in 1..Len(loadOrig.Processors) :
            LET r == Validate(loadOrig.Processors[k].Type, loadOrig.Processors[k].Config)
            IN ~r.panic /\ r.err = NoErr

\* LoadConfig has returned the error of its second processor entry, after
\* the input section, the output section and the first entry had passed.
C20_Witness ==
  /\ Len(loadSteps) = 4
  /\ loadSteps[3].err = NoErr
  /\ loadSteps[4].err = "unknown processor type"
  /\ loadPc = "returned"
  /\ loadRet = "nil"

\* C21: ProcessorConfig.Validate accepts the option map of a timestamp_replay
\* exactly when it gives one of the two modes and not the other: a
\* target_timestamp without an offset, or an integer offset with a unit of
\* the allowed set and no target_timestamp.
C21_TimestampReplayModes ==
  (cfg.Type = "timestamp_replay" /\ validated.st # "none") =>
    LET c == cfg.Config
        targetMode == Has(c, "target_timestamp") /\ ~Has(c, "offset")
        offsetMode == /\ ~Has(c, "target_timestamp")
                      /\ c["offset"].t \in {"int", "int64"}
                      /\ IsString(c["unit"])
                      /\ c["unit"].s \in availableUnits
    IN validated.st = "ok" <=> (targetMode \/ offsetMode)

\* C22: after a successful OutputConfig.Validate Workers is at least 1 and
\* Batch_size is set, within 1..100000, and 2000 when it was absent; after a
\* successful InputConfig.Validate Workers is at least 1.
C22_WorkersAndBatchSize ==
  \A i \in 1..Len(loadSteps) :
    /\ (loadSteps[i].step = "input" /\ loadSteps[i].err = NoErr) => loadCfg.Input.Workers >= 1
    /\ (loadSteps[i].step = "output" /\ loadSteps[i].err = NoErr) =>
         /\ loadCfg.Output.Workers >= 1
         /\ ~loadCfg.Output.Batch_size.isNil
         /\ loadCfg.Output.Batch_size.v \in 1..100000
         /\ loadOrig.Output.Batch_size.isNil => loadCfg.Output.Batch_size.v = 2000

\* An output section with no workers and a batch_size of zero has passed
\* validation.
C22_Witness ==
  /\ Len(loadSteps) >= 2
  /\ loadSteps[2].err = NoErr
  /\ loadOrig.Output.Workers = 0
  /\ loadOrig.Output.Batch_size = Ptr(0)
  /\ loadCfg.Output.Batch_size = Ptr(2000)

\* C23: after a successful OutputConfig.Validate of a section that gives no
\* optional field, compression is none, auto_create_topic is false,
\* request_timeout is 30s, retry_backoff is 2s and max_retries is 3.
C23_OutputDefaults ==
  \A i \in 1..Len(loadSteps) :
    ( /\ loadSteps[i].step = "output"
      /\ loadSteps[i].err = NoErr
      /\ loadOrig.Output.Compression.isNil
      /\ loadOrig.Output.Auto_create_topic.isNil
      /\ loadOrig.Output.Request_timeout.isNil
      /\ loadOrig.Output.Retry_backoff.isNil
      /\ loadOrig.Output.Max_retries.isNil )
    => /\ loadCfg.Output.Compression = Ptr("none")
       /\ loadCfg.Output.Auto_create_topic = Ptr(FALSE)
       /\ loadCfg.Output.Request_timeout = Ptr("30s")
       /\ loadCfg.Output.Retry_backoff = Ptr("2s")
       /\ loadCfg.Output.Max_retries = Ptr(3)

\* ------------------------------------------- claims on the Source, continued
\* The records of the current batch that the callback has returned from
\* without their having been received from Messages: the abandoned ones.
AbandonedInBatch ==
  { i \in 1..(ri - 1) :
      /\ i <= Len(fetches.recs)
      /\ \A j \in 1..Len(published) :
           ~( /\ published[j].Partition = fetches.recs[i].Partition
              /\ published[j].Offset = fetches.recs[i].Offset ) }

\* C24: once the poll task has abandoned a record of a batch on cancellation
\* no later record of that batch is received from Messages.
C24_DeliverOrAbandon ==
  [][AbandonedInBatch # {} => published' = published]_vars

\* The steps of the goroutine pollMessages while the context is not done.
PollTask ==
  \/ PollSelect
  \/ PollFetches
  \/ ErrSend
  \/ Callback
  \/ DeserErrSend
  \/ MsgSend

\* The Source while cancellation has not fired and Close is not called: the
\* poll task and the two consumers. The Go scheduler runs a goroutine that
\* can take a step, hence the weak fairness of the poll task; the consumers
\* receive when they choose to.
UncancelledInit == SrcInit /\ ProcIdle /\ ChainIdle /\ LoadIdle
UncancelledNext ==
  \/ Start
  \/ PollTask
  \/ MsgRecv
  \/ ErrRecv
UncancelledSpec ==
  UncancelledInit /\ [][UncancelledNext]_vars /\ WF_vars(Start) /\ WF_vars(PollTask)

\* The records of the current fetch that no consumer of Messages has
\* received: without cancellation the callback returns for a record only once
\* the record was received, and the fetch is dropped after its last record.
RecordWaiting == Len(fetches.recs) > 0
\* The errors of the current fetch that no consumer of Errors has received.
ErrorWaiting ==
  \/ pc \in {"errSend", "deserErrSend"}
  \/ /\ pc \in {"callback", "msgSend"}
     /\ \E i \in 1..Len(fetches.recs) :
          /\ i > ri \/ (i = ri /\ pc = "callback")
          /\ Deserialize(FromKafkaFranz(fetches.recs[i]).Value).err # NoErr

\* C25: while cancellation has not fired, a consumer that keeps receiving
\* from Messages eventually receives every fetched record whatever the
\* consumer of Errors does, and a consumer that keeps receiving from Errors
\* eventually receives every error whatever the consumer of Messages does.
C25_StreamsIndependent ==
  /\ WF_vars(MsgRecv) => (RecordWaiting ~> ~RecordWaiting)
  /\ WF_vars(ErrRecv) => (ErrorWaiting ~> ~ErrorWaiting)

\* ------------------------------------------ claims on processors, continued
\* C26: a drop processor built without field_name or without filter_criteria
\* and a transform processor built without field_name or without operation
\* return from every Process call the Record they were given, unchanged, with
\* no error, and no call aborts.
C26_MissingOptionsPassthrough ==
  ( /\ built.st = "ok"
    /\ \/ /\ cfg.Type = "drop"
          /\ ~Has(builtConfig, "field_name") \/ ~Has(builtConfig, "filter_criteria")
       \/ /\ cfg.Type = "transform"
          /\ ~Has(builtConfig, "field_name") \/ ~Has(builtConfig, "operation") )
  => \A w \in Workers :
       /\ worker[w].st # "panic"
       /\ worker[w].st = "ret" =>
            /\ worker[w].out.ret = "msg"
            /\ worker[w].out.err = NoErr
            /\ worker[w].out.m = worker[w].in

\* A transform built with an operation and no field_name has returned a
\* Record whose message is a string, and a second call a Record with a nil
\* valueFields.
C26_Witness ==
  /\ cfg.Type = "transform" /\ built.st = "ok"
  /\ ~Has(builtConfig, "field_name") /\ builtConfig["operation"] = Str("uppercase")
  /\ worker[1].st = "ret"
  /\ IsString(worker[1].in.ValueFields.kv["message"])
  /\ worker[2].st = "ret"
  /\ worker[2].in.ValueFields.isNil

\* -------------------------------------------- the Source under cancellation
\* Every step of the goroutine pollMessages, the cancelled branches of its
\* selects included.
PollTaskSteps ==
  \/ PollTask
  \/ ErrSendCancelled
  \/ DeserErrCancelled
  \/ MsgSendCancelled

\* The Source as long as Close is not called, with the Go scheduler's
\* guarantee that the poll task runs whenever it can take a step. Nothing is
\* assumed of the consumers.
FairInit == SrcInit /\ ProcIdle /\ ChainIdle /\ LoadIdle
FairNext ==
  \/ Start
  \/ Cancel
  \/ PollTaskSteps
  \/ MsgRecv
  \/ ErrRecv
FairSpec == FairInit /\ [][FairNext]_vars /\ WF_vars(PollTaskSteps)

\* C27: once the context is cancelled a started poll task reaches its
\* return, whatever the consumers do.
C27_PollTaskTerminates ==
  (cancelled /\ pc # "created") ~> (pc = "done")

\* The poll task has returned after cancellation although no Record and no
\* error was ever received and a Record had been fetched.
C27_Witness ==
  /\ cancelled /\ pc = "done" /\ ~aborted
  /\ published = <<>> /\ reported = <<>>
  /\ msgConsumer = "idle" /\ errConsumer = "idle"
  /\ readRecs # {}

\* The Record of partition p at offset o has been received from Messages.
ReceivedRecord(p, o) ==
  \E j \in 1..Len(published) : published[j].Partition = p /\ published[j].Offset = o

\* C28: unless cancellation has fired, at most one Record the callback has
\* taken up is not yet received, and when the poll task is about to issue a
\* fetch every Record and every error of the earlier fetches has been
\* received.
C28_Backpressure ==
  ~cancelled =>
    /\ Cardinality({ r \in readRecs : ~ReceivedRecord(r[1], r[2]) }) <= 1
    /\ pc \in {"select", "fetch"} =>
         /\ fetches = EmptyFetches
         /\ \A p \in Partitions : \A o \in 0..(cursor[p] - 1) : ReceivedRecord(p, o)
         /\ Len(reported) =
              fetchErrs + Cardinality({ j \in 1..Len(published) :
                                         Deserialize(published[j].Value).err # NoErr })

\* The poll task is about to issue another fetch after a batch of two
\* Records, one of them with an error, was received completely.
C28_Witness ==
  /\ ~cancelled /\ ~aborted /\ pc = "fetch"
  /\ Len(published) >= 2 /\ Len(reported) >= 1
  /\ cursor[0] + cursor[1] < MaxRecords

\* ------------------------------------------ claims on processors, continued
\* C29: for every option map ProcessorConfig.Validate returns nil or an
\* error and NewProcessor returns a processor or an error; neither aborts
\* the program.
C29_ValidateAndBuildTotal ==
  /\ validated.st \in {"none", "ok", "err"}
  /\ built.st \in {"none", "ok", "err"}

\* C30: every Process call of a built processor returns a result or an
\* error without aborting, also on a Record whose ValueFields is nil.
C30_ProcessNeverAborts ==
  \A w \in Workers : worker[w].st # "panic"
====
